---------------------------- MODULE Spec2Model ----------------------------
(***************************************************************************)
(* Model of the adaptive combat NPC controller.                            *)
(*                                                                         *)
(*   AdaptiveNPC, Weapon, FPSPlayer and the round callbacks: src/mane.py   *)
(*   EnemyNPC:                                              src/npc.py     *)
(*                                                                         *)
(* Units.  The clock (time.time()) counts whole seconds.  Durations that   *)
(* the code draws as fractions of a second (reaction_time, fire_cooldown,  *)
(* shoot_cooldown) are kept in milliseconds and compared as                *)
(* 1000 * elapsed >= duration.  accuracy, aggressiveness and every         *)
(* random.random() draw are kept in hundredths (0.05 is 5).  Health and    *)
(* damage are integers.                                                    *)
(*                                                                         *)
(* Geometry is not modelled: what the code computes from positions         *)
(* (distance to the player, the outcome of raycast, whether a waypoint     *)
(* was reached, whether a wall offers cover) enters each handler as an     *)
(* input drawn from a small set.  Every random draw of a handler is an     *)
(* input as well.                                                          *)
(***************************************************************************)
EXTENDS Integers, Sequences, FiniteSets, TLC

VARIABLES
    now,                \* time.time(), seconds
    npc,                \* one AdaptiveNPC (mane.py), a record of its attributes
    player,             \* the global player of mane.py: present (not None), alive, health
    round_in_progress,  \* mane.py global
    current_round,      \* mane.py global
    enemy,              \* one EnemyNPC (npc.py), a record of its attributes
    target,             \* the player entity an EnemyNPC holds in self.player
    obs,                \* the last dict returned by EnemyNPC.get_observation_info
    combat_env,         \* one CombatEnvironment (combat_env.py) and the NPC it controls
    spawned,            \* whether the AdaptiveNPC is in the scene (in the enemies list)
    pending,            \* the callbacks scheduled with invoke(..., delay=...) and not yet run
    op,                 \* "die" after a direct call of die(), "step" after any other operation
    hist                \* history of the run, read only by the properties

vars == <<now, npc, player, round_in_progress, current_round, enemy, target, obs,
          combat_env, spawned, pending, op, hist>>

-----------------------------------------------------------------------------
(* Bounds of the model *)

\* The clock runs from StartTime to StartTime + MaxTime.
MaxTime == 10

\* Operations that append to the experience log are taken only while the log
\* holds fewer than MaxLog records.
MaxLog == 2

\* Longest experience buffer fed to adapt_behavior in SpecAdapt.
MaxBuf == 6

\* The map has MaxSpawns enemy spawn points.
MaxSpawns == 2
\* The adaptations applied to one NPC in a run of adaptations.
MaxTunes == 6
\* The records appended to a log that starts one short of full.
MaxAppends == 3

-----------------------------------------------------------------------------
(* Program constants *)

MAX_ROUNDS == 5
ExperienceMaxLen == 100
WeaponDamage == 25
PlayerHitDamage == 10
VisionRange == 30
LowHealth == 30
RetreatHealthBonus == 20
RetreatPathLen == 3
AccuracyCap == 90
AccuracyFloor == 40
AccuracyStepUp == 5
AccuracyStepDown == 2
MinExperience == 5

\* time.time() is seconds since the epoch: far larger than any duration of
\* the program, so that a timer field still holding its initial 0 is long past.
StartTime == 100

\* An attribute that has not been set (hasattr is False) or holds None.
None == -1

States == {"patrol", "engage", "retreat", "hide"}
Tactics == {"flanker", "rusher", "camper", "sniper"}

-----------------------------------------------------------------------------
(* Inputs: the values a handler's arguments, random draws and geometric    *)
(* queries are taken from.                                                 *)

\* time.dt between two update ticks, seconds
TickSteps == {1, 2}
\* random.random(), hundredths
Draws == {5, 50, 95}
\* distance from the NPC to the player
Distances == {12, 40}
\* raycast result: nothing hit, the player hit first, another entity hit first
Rays == {"none", "player", "other"}
\* amounts passed to take_damage
Amounts == {0, 75}
\* random.randint(3, 6) of generate_patrol_path
NumPoints == {3, 6}
\* random.uniform(-0.2, 0.2) on aggressiveness, hundredths
AggrJitter == {20}
\* random.uniform(-2, 2) on patience, seconds
PatienceJitter == {-2}
\* random.uniform(0.8, 1.2) on reaction_time, percent
ReactionJitter == {80}

Min(a, b) == IF a < b THEN a ELSE b
Max(a, b) == IF a > b THEN a ELSE b


-----------------------------------------------------------------------------
(* AdaptiveNPC: construction                                               *)

RespawnTime == 5
CheckDelay == 1
NextRoundDelay == 4
EndGameDelay == 5
MemoryDuration == 5

\* random.uniform(0.3, 0.7), (5, 15), (0.5, 1.5), (0.5, 0.8), (0.8, 2)
InitAggressiveness == {50}
InitPatience == {5}
InitReaction == {1500}
InitAccuracy == {80}
InitCooldown == {2000}
InitTactics == {"flanker"}

Repeat(x, k) == [i \in 1..k |-> x]

\* generate_patrol_path: num random in-bounds points, cursor on the first
generate_patrol_path(n, num) ==
    [n EXCEPT !.waypoints = Repeat("patrol", num), !.current_waypoint = 0]

\* The draws of __init__: c is a record of the tunables drawn.
InitChoices ==
    [num : NumPoints, aggressiveness : InitAggressiveness, patience : InitPatience,
     reaction_time : InitReaction, accuracy : InitAccuracy,
     tactical_preference : InitTactics, fire_cooldown : InitCooldown]

AdaptiveNPC(c) ==
    generate_patrol_path(
        [health |-> 100, max_health |-> 100, alive |-> TRUE, collider |-> TRUE,
         death_time |-> 0,
         state |-> "patrol", waypoints |-> <<>>, current_waypoint |-> 0,
         last_seen_player_pos |-> FALSE, last_seen_player_time |-> 0,
         aggressiveness |-> c.aggressiveness, patience |-> c.patience,
         reaction_time |-> c.reaction_time, accuracy |-> c.accuracy,
         tactical_preference |-> c.tactical_preference,
         experience |-> <<>>, last_fire_time |-> 0, fire_cooldown |-> c.fire_cooldown,
         hiding_start_time |-> None, player_spotted_time |-> None,
         spawn_point |-> None, exc |-> "none"],
        c.num)

-----------------------------------------------------------------------------
(* AdaptiveNPC: perception and paths                                       *)

\* can_see_player without the vision range
can_see_player_at_any_range(p, dist, ray) ==
    IF ~p.present \/ ~p.alive THEN FALSE
    ELSE IF ray # "none" THEN ray = "player"
    ELSE FALSE

\* can_see_player: dist and ray are what the geometry gives on this call
can_see_player(p, dist, ray) ==
    IF ~p.present \/ ~p.alive THEN FALSE
    ELSE IF dist > VisionRange THEN FALSE
    ELSE IF ray # "none" THEN ray = "player"
    ELSE FALSE

\* find_hiding_spot: one waypoint, behind a wall (cover) or straight away from
\* the player; reads player.position, so it raises when player is None
find_hiding_spot(n, p, t, cover) ==
    IF ~p.present THEN [n EXCEPT !.exc = "AttributeError"]
    ELSE [n EXCEPT !.waypoints = IF cover THEN <<"cover">> ELSE <<"away">>,
                   !.current_waypoint = 0,
                   !.hiding_start_time = t]

\* find_retreat_path: three waypoints away from the player
find_retreat_path(n, p) ==
    IF ~p.present THEN n
    ELSE [n EXCEPT !.waypoints = Repeat("retreat", RetreatPathLen),
                   !.current_waypoint = 0]

-----------------------------------------------------------------------------
(* AdaptiveNPC: adaptation                                                 *)

CloseTactics == <<"rusher", "flanker">>
FarTactics == <<"camper", "sniper">>
CloseRange == 8
LongRange == 15

FireRecord(hit, dist, moving) ==
    [action |-> "fire", hit |-> hit, distance |-> dist, player_moving |-> moving]

\* The keys of a 'died' record that nothing reads (killer_position,
\* time_alive) are left out; hit and player_moving are absent in the code
\* and never read for this action.
DiedRecord(dist) ==
    [action |-> "died", hit |-> FALSE, distance |-> dist, player_moving |-> FALSE]

RECURSIVE SumDistance(_)
SumDistance(s) == IF s = <<>> THEN 0 ELSE Head(s).distance + SumDistance(Tail(s))

IsFire(e) == e.action = "fire"
IsHit(e) == e.hit
IsMoving(e) == e.player_moving

\* The draws of adapt_behavior: d.tac_r is random.random(), d.tac_i the index
\* random.choice picks.
AdaptDraws == [tac_r : Draws, tac_i : {1, 2}]

\* adapt_behavior with the accuracy raised on a high hit rate and lowered
\* on a low one
adapt_behavior_inverted(n, d) ==
    LET fires == SelectSeq(n.experience, IsFire)
        hits == Len(SelectSeq(fires, IsHit))
        total_shots == Len(fires)
        accuracy == IF hits * 10 < 3 * total_shots
                        THEN Max(AccuracyFloor, n.accuracy - AccuracyStepDown)
                    ELSE IF hits * 10 > 7 * total_shots
                        THEN Min(AccuracyCap, n.accuracy + AccuracyStepUp)
                    ELSE n.accuracy
    IN IF total_shots > 0 THEN [n EXCEPT !.accuracy = accuracy] ELSE n

\* adapt_behavior without its test for shots in the log
adapt_behavior_unguarded(n, d) ==
    LET fires == SelectSeq(n.experience, IsFire)
        hits == Len(SelectSeq(fires, IsHit))
        misses == Len(fires) - hits
        player_movement == Len(SelectSeq(fires, IsMoving))
        total_shots == hits + misses
        sum == SumDistance(fires)
        len == Len(n.experience)
        accuracy == IF hits * 10 < 3 * total_shots
                        THEN Min(AccuracyCap, n.accuracy + AccuracyStepUp)
                    ELSE IF hits * 10 > 7 * total_shots
                        THEN Max(AccuracyFloor, n.accuracy - AccuracyStepDown)
                    ELSE n.accuracy
        tactic == IF sum < CloseRange * total_shots
                      THEN IF d.tac_r < 60 THEN CloseTactics[d.tac_i]
                           ELSE n.tactical_preference
                  ELSE IF sum > LongRange * total_shots
                      THEN IF d.tac_r < 60 THEN FarTactics[d.tac_i]
                           ELSE n.tactical_preference
                  ELSE n.tactical_preference
        aggr == IF player_movement * 10 > 7 * len
                    THEN Min(90, n.aggressiveness + 5)
                ELSE IF player_movement * 10 < 3 * len
                    THEN Max(20, n.aggressiveness - 3)
                ELSE n.aggressiveness
    IN [n EXCEPT !.accuracy = accuracy, !.tactical_preference = tactic,
                 !.aggressiveness = aggr]

adapt_behavior(n, d) ==
    LET fires == SelectSeq(n.experience, IsFire)
        hits == Len(SelectSeq(fires, IsHit))
        misses == Len(fires) - hits
        player_movement == Len(SelectSeq(fires, IsMoving))
        total_shots == hits + misses
        sum == SumDistance(fires)
        len == Len(n.experience)
        \* hit_rate < 0.3, hit_rate > 0.7
        accuracy == IF hits * 10 < 3 * total_shots
                        THEN Min(AccuracyCap, n.accuracy + AccuracyStepUp)
                    ELSE IF hits * 10 > 7 * total_shots
                        THEN Max(AccuracyFloor, n.accuracy - AccuracyStepDown)
                    ELSE n.accuracy
        \* avg_distance < 8, avg_distance > 15
        tactic == IF sum < CloseRange * total_shots
                      THEN IF d.tac_r < 60 THEN CloseTactics[d.tac_i]
                           ELSE n.tactical_preference
                  ELSE IF sum > LongRange * total_shots
                      THEN IF d.tac_r < 60 THEN FarTactics[d.tac_i]
                           ELSE n.tactical_preference
                  ELSE n.tactical_preference
        \* player_moves_factor = player_movement / len(self.experience)
        aggr == IF player_movement * 10 > 7 * len
                    THEN Min(90, n.aggressiveness + 5)
                ELSE IF player_movement * 10 < 3 * len
                    THEN Max(20, n.aggressiveness - 3)
                ELSE n.aggressiveness
    IN IF total_shots > 0
       THEN [n EXCEPT !.accuracy = accuracy, !.tactical_preference = tactic,
                      !.aggressiveness = aggr]
       ELSE n

\* append of a deque without maxlen
DequeAppend_unbounded(s, e) == Append(s, e)

\* deque(maxlen=100).append
DequeAppend(s, e) ==
    IF Len(s) >= ExperienceMaxLen THEN Append(Tail(s), e) ELSE Append(s, e)

\* record_experience that adapts on a log of any length
record_experience_adapts_early(n, data, r, d) ==
    LET n1 == [n EXCEPT !.experience = DequeAppend(@, data)]
    IN IF r < 20
       THEN adapt_behavior(n1, d)
       ELSE n1

\* record_experience: r is the random.random() compared with 0.2
record_experience(n, data, r, d) ==
    LET n1 == [n EXCEPT !.experience = DequeAppend(@, data)]
    IN IF Len(n1.experience) >= MinExperience /\ r < 20
       THEN adapt_behavior(n1, d)
       ELSE n1

\* The draws of adapt_after_death.
DeathDraws ==
    [aggr_j : AggrJitter, pat_j : PatienceJitter, react_j : ReactionJitter,
     re_r : {5}, re_tac : {"camper"}]

\* adapt_after_death with no lower limit on the reaction time
adapt_after_death_no_floor(n, d) ==
    [n EXCEPT !.aggressiveness = Max(10, Min(90, @ + d.aggr_j)),
              !.patience = Max(3, Min(20, @ + d.pat_j)),
              !.reaction_time = Min(2000, (@ * d.react_j) \div 100),
              !.tactical_preference = IF d.re_r < 30 THEN d.re_tac ELSE @]

adapt_after_death(n, d) ==
    [n EXCEPT !.aggressiveness = Max(10, Min(90, @ + d.aggr_j)),
              !.patience = Max(3, Min(20, @ + d.pat_j)),
              !.reaction_time = Max(300, Min(2000, (@ * d.react_j) \div 100)),
              !.tactical_preference = IF d.re_r < 30 THEN d.re_tac ELSE @]

-----------------------------------------------------------------------------
(* AdaptiveNPC: death, respawn, damage                                     *)

\* die: t is time.time(), dist the distance to the player, r the draw of
\* record_experience, da the draws of adapt_behavior, dd of adapt_after_death
\* die without its guard on alive
die_unguarded(n, p, t, dist, r, da, dd) ==
    LET n1 == [n EXCEPT !.alive = FALSE, !.death_time = t, !.collider = FALSE]
        n2 == record_experience(n1, DiedRecord(IF p.present THEN dist ELSE 0), r, da)
    IN adapt_after_death(n2, dd)

\* die that marks the death in the state field
die_sets_dead_state(n, p, t, dist, r, da, dd) ==
    IF ~n.alive THEN n
    ELSE LET n1 == [n EXCEPT !.alive = FALSE, !.death_time = t, !.collider = FALSE,
                             !.state = "dead"]
             n2 == record_experience(n1, DiedRecord(IF p.present THEN dist ELSE 0), r, da)
         IN adapt_after_death(n2, dd)

die(n, p, t, dist, r, da, dd) ==
    IF ~n.alive THEN n
    ELSE LET n1 == [n EXCEPT !.alive = FALSE, !.death_time = t, !.collider = FALSE]
             n2 == record_experience(n1, DiedRecord(IF p.present THEN dist ELSE 0), r, da)
         IN adapt_after_death(n2, dd)

\* enemy_spawn_positions, a list of MaxSpawns points named by their index
enemy_spawn_positions == [k \in 1..MaxSpawns |-> k]

\* The spawn point respawn picks: far is the set of spawn points more than
\* 10 units from the player, k the draw of random.choice.
\* the pick without the filter on the distance to the player
spawn_point_unfiltered(p, far, k) ==
    enemy_spawn_positions[((k - 1) % Len(enemy_spawn_positions)) + 1]

spawn_point(p, far, k) ==
    LET filtered == IF p.present
                    THEN SelectSeq(enemy_spawn_positions, LAMBDA sp : sp \in far)
                    ELSE enemy_spawn_positions
        possible_spawns == IF filtered = <<>> THEN enemy_spawn_positions ELSE filtered
    IN possible_spawns[((k - 1) % Len(possible_spawns)) + 1]

\* respawn that leaves the tactical state the NPC died in
respawn_keeps_state(n, p, t, i) ==
    generate_patrol_path(
        [n EXCEPT !.alive = TRUE, !.health = n.max_health, !.collider = TRUE,
                  !.spawn_point = spawn_point(p, i.far, i.k)],
        i.num)

\* respawn that starts over with an empty experience log
respawn_forgets(n, p, t, i) ==
    generate_patrol_path(
        [n EXCEPT !.alive = TRUE, !.health = n.max_health, !.collider = TRUE,
                  !.spawn_point = spawn_point(p, i.far, i.k),
                  !.state = "patrol", !.experience = <<>>],
        i.num)

\* respawn: spawn_point is the position it gives the NPC; i.far and i.k
\* decide it, i.num is the length of the patrol path. last_respawn is
\* written here and never read for its value.
respawn(n, p, t, i) ==
    generate_patrol_path(
        [n EXCEPT !.alive = TRUE, !.health = n.max_health, !.collider = TRUE,
                  !.spawn_point = spawn_point(p, i.far, i.k),
                  !.state = "patrol"],
        i.num)

\* take_damage without the call of die on health <= 0
take_damage_no_die(n, p, t, amount, i) ==
    IF ~n.alive THEN n
    ELSE LET n1 == [n EXCEPT !.health = @ - amount]
         IN IF n1.health < LowHealth
                THEN find_retreat_path([n1 EXCEPT !.state = "retreat"], p)
            ELSE n1

\* take_damage that leaves a hiding NPC of low health in hiding
take_damage_keeps_hiding(n, p, t, amount, i) ==
    IF ~n.alive THEN n
    ELSE LET n1 == [n EXCEPT !.health = @ - amount]
             n2 == IF n1.health < LowHealth /\ n1.state # "hide"
                       THEN find_retreat_path([n1 EXCEPT !.state = "retreat"], p)
                   ELSE IF i.r < 30
                       THEN IF i.choice = "retreat"
                                THEN find_retreat_path([n1 EXCEPT !.state = "retreat"], p)
                            ELSE IF i.choice = "hide"
                                THEN find_hiding_spot([n1 EXCEPT !.state = "hide"], p, t, i.cover)
                            ELSE [n1 EXCEPT !.state = "engage"]
                   ELSE n1
         IN IF n2.exc # "none" THEN n2
            ELSE IF n2.health <= 0 THEN die(n2, p, t, i.dist, i.rec_r, i.da, i.dd)
            ELSE n2

\* The inputs of take_damage besides the amount: i.r is the draw compared with
\* 0.3, i.choice the state random.choice picks, i.cover whether a wall scores
\* as cover, i.dist the distance to the player; i.rec_r, i.da, i.dd are handed
\* to die.
take_damage(n, p, t, amount, i) ==
    IF ~n.alive THEN n
    ELSE LET n1 == [n EXCEPT !.health = @ - amount]
             n2 == IF n1.health < LowHealth
                       THEN find_retreat_path([n1 EXCEPT !.state = "retreat"], p)
                   ELSE IF i.r < 30
                       THEN IF i.choice = "retreat"
                                THEN find_retreat_path([n1 EXCEPT !.state = "retreat"], p)
                            ELSE IF i.choice = "hide"
                                THEN find_hiding_spot([n1 EXCEPT !.state = "hide"], p, t, i.cover)
                            ELSE [n1 EXCEPT !.state = "engage"]
                   ELSE n1
         IN IF n2.exc # "none" THEN n2
            ELSE IF n2.health <= 0 THEN die(n2, p, t, i.dist, i.rec_r, i.da, i.dd)
            ELSE n2

\* Weapon.fire, the branch in which the ray hits an entity with is_enemy:
\* the damage is subtracted from the entity's health directly.
Weapon_fire_hit(n, p, t, i) ==
    LET n1 == [n EXCEPT !.health = @ - WeaponDamage]
    IN IF n1.health <= 0 THEN die(n1, p, t, i.dist, i.rec_r, i.da, i.dd)
       ELSE n1

-----------------------------------------------------------------------------
(* FPSPlayer                                                               *)

PlayerRespawnTime == 3

FPSPlayer == [present |-> TRUE, alive |-> TRUE, health |-> 100, max_health |-> 100,
              death_time |-> 0]

FPSPlayer_die(p, t) ==
    IF ~p.alive THEN p ELSE [p EXCEPT !.alive = FALSE, !.death_time = t]

FPSPlayer_take_damage(p, t, amount) ==
    IF ~p.alive THEN p
    ELSE LET p1 == [p EXCEPT !.health = @ - amount]
         IN IF p1.health <= 0 THEN FPSPlayer_die(p1, t) ELSE p1

FPSPlayer_respawn(p) == [p EXCEPT !.alive = TRUE, !.health = p.max_health]

-----------------------------------------------------------------------------
(* AdaptiveNPC: the behaviours of update                                   *)

\* patrol_behavior: i.reached says whether the move brought the NPC within 1
\* of the waypoint
\* patrol_behavior without the regeneration of an empty path
patrol_behavior_keeps_empty(n, i) ==
    IF n.waypoints = <<>> THEN n
    ELSE IF n.current_waypoint >= Len(n.waypoints) THEN [n EXCEPT !.exc = "IndexError"]
    ELSE IF i.reached
        THEN [n EXCEPT !.current_waypoint = (@ + 1) % Len(n.waypoints)]
    ELSE n

patrol_behavior(n, i) ==
    IF n.waypoints = <<>> THEN generate_patrol_path(n, i.num)
    ELSE IF n.current_waypoint >= Len(n.waypoints) THEN [n EXCEPT !.exc = "IndexError"]
    ELSE IF i.reached
        THEN [n EXCEPT !.current_waypoint = (@ + 1) % Len(n.waypoints)]
    ELSE n

look_for_player(n, p, t, i) ==
    IF can_see_player(p, i.dist, i.ray)
    THEN LET spotted == IF n.player_spotted_time = None THEN t ELSE n.player_spotted_time
             n1 == [n EXCEPT !.player_spotted_time = spotted]
         IN IF 1000 * (t - spotted) >= n.reaction_time
            THEN [n1 EXCEPT !.state = "engage", !.last_seen_player_pos = TRUE,
                            !.last_seen_player_time = t]
            ELSE n1
    ELSE [n EXCEPT !.player_spotted_time = None]

\* random.random() < hit_chance * 1 / (1 + distance * 0.05), r in hundredths
HitRoll(r, accuracy, dist) == r * (20 + dist) < accuracy * 20

\* Whether combat_behavior reaches fire_at_player on this tick
FireDue(n, p, t, i) ==
    /\ p.present /\ p.alive /\ can_see_player(p, i.dist, i.ray)
    /\ 1000 * (t - n.last_fire_time) >= n.fire_cooldown

\* fire_at_player, the NPC's side: the record's hit flag is a second draw
fire_at_player(n, p, t, i) ==
    record_experience([n EXCEPT !.last_fire_time = t],
                      FireRecord(HitRoll(i.r_rec, n.accuracy, i.dist), i.dist, i.moving),
                      i.rec_r, i.da)

\* fire_at_player, the player's side: player.take_damage(10) on the first draw
fire_at_player_damage(n, p, t, i) ==
    IF HitRoll(i.r_hit, n.accuracy, i.dist) /\ p.alive
    THEN FPSPlayer_take_damage(p, t, PlayerHitDamage)
    ELSE p

\* combat_behavior that also fires on a tick without sight of the player
combat_behavior_fires_blind(n, p, t, i) ==
    IF ~p.present \/ ~p.alive \/ ~can_see_player(p, i.dist, i.ray)
    THEN LET n1 == [n EXCEPT !.last_seen_player_time = t]
         IN IF i.r_hide > n1.aggressiveness
            THEN find_hiding_spot([n1 EXCEPT !.state = "hide"], p, t, i.cover)
            ELSE IF 1000 * (t - n1.last_fire_time) >= n1.fire_cooldown
                THEN fire_at_player(n1, p, t, i)
            ELSE n1
    ELSE LET n1 == [n EXCEPT !.last_seen_player_pos = TRUE, !.last_seen_player_time = t]
         IN IF FireDue(n1, p, t, i) THEN fire_at_player(n1, p, t, i) ELSE n1

combat_behavior(n, p, t, i) ==
    IF ~p.present \/ ~p.alive \/ ~can_see_player(p, i.dist, i.ray)
    THEN LET n1 == [n EXCEPT !.last_seen_player_time = t]
         IN IF i.r_hide > n1.aggressiveness
            THEN find_hiding_spot([n1 EXCEPT !.state = "hide"], p, t, i.cover)
            ELSE n1
    ELSE LET n1 == [n EXCEPT !.last_seen_player_pos = TRUE, !.last_seen_player_time = t]
         IN IF FireDue(n1, p, t, i) THEN fire_at_player(n1, p, t, i) ELSE n1

\* retreat_behavior with the health bonus at every waypoint reached
retreat_behavior_bonus_per_waypoint(n, p, t, i) ==
    IF n.waypoints = <<>> \/ n.current_waypoint >= Len(n.waypoints)
    THEN find_hiding_spot([n EXCEPT !.state = "hide"], p, t, i.cover)
    ELSE IF i.reached
        THEN IF n.current_waypoint + 1 >= Len(n.waypoints)
             THEN [n EXCEPT !.current_waypoint = @ + 1, !.state = "hide",
                            !.health = Min(@ + RetreatHealthBonus, n.max_health)]
             ELSE [n EXCEPT !.current_waypoint = @ + 1,
                            !.health = Min(@ + RetreatHealthBonus, n.max_health)]
    ELSE n

retreat_behavior(n, p, t, i) ==
    IF n.waypoints = <<>> \/ n.current_waypoint >= Len(n.waypoints)
    THEN find_hiding_spot([n EXCEPT !.state = "hide"], p, t, i.cover)
    ELSE IF i.reached
        THEN IF n.current_waypoint + 1 >= Len(n.waypoints)
             THEN [n EXCEPT !.current_waypoint = @ + 1, !.state = "hide",
                            !.health = Min(@ + RetreatHealthBonus, n.max_health)]
             ELSE [n EXCEPT !.current_waypoint = @ + 1]
    ELSE n

\* hide_behavior that returns to patrol on the waypoints it has
hide_behavior_keeps_path(n, p, t, i) ==
    LET start == IF n.hiding_start_time = None THEN t ELSE n.hiding_start_time
        n1 == [n EXCEPT !.hiding_start_time = start]
    IN IF t - start > n1.patience
       THEN [n1 EXCEPT !.state = "patrol"]
       ELSE IF can_see_player(p, i.dist, i.ray)
               /\ i.r_engage * n1.max_health < n1.aggressiveness * n1.health
           THEN [n1 EXCEPT !.state = "engage"]
       ELSE n1

\* hide_behavior: i.r_engage is the draw compared with
\* aggressiveness * health / max_health
hide_behavior(n, p, t, i) ==
    LET start == IF n.hiding_start_time = None THEN t ELSE n.hiding_start_time
        n1 == [n EXCEPT !.hiding_start_time = start]
    IN IF t - start > n1.patience
       THEN generate_patrol_path([n1 EXCEPT !.state = "patrol"], i.num)
       ELSE IF can_see_player(p, i.dist, i.ray)
               /\ i.r_engage * n1.max_health < n1.aggressiveness * n1.health
           THEN [n1 EXCEPT !.state = "engage"]
       ELSE n1

\* The check that closes update: the last known position expires
forget_player(n, t, i) ==
    IF n.last_seen_player_pos /\ t - n.last_seen_player_time > MemoryDuration
    THEN LET n1 == [n EXCEPT !.last_seen_player_pos = FALSE]
         IN IF n1.state = "engage"
            THEN generate_patrol_path([n1 EXCEPT !.state = "patrol"], i.num)
            ELSE n1
    ELSE n

\* update that respawns a dead NPC whether or not a round is in progress
update_respawns_between_rounds(n, p, t, rip, i) ==
    IF ~n.alive
    THEN IF t - n.death_time >= RespawnTime THEN respawn(n, p, t, i) ELSE n
    ELSE LET n1 == IF n.state = "patrol"
                       THEN LET m == patrol_behavior(n, i)
                            IN IF m.exc # "none" THEN m ELSE look_for_player(m, p, t, i)
                   ELSE IF n.state = "engage" THEN combat_behavior(n, p, t, i)
                   ELSE IF n.state = "retreat" THEN retreat_behavior(n, p, t, i)
                   ELSE IF n.state = "hide" THEN hide_behavior(n, p, t, i)
                   ELSE n
         IN IF n1.exc # "none" THEN n1 ELSE forget_player(n1, t, i)

\* update, the NPC's side; rip is round_in_progress.  The stuck timer and the
\* health bar touch the position and the display only.
update(n, p, t, rip, i) ==
    IF ~n.alive
    THEN IF t - n.death_time >= RespawnTime /\ rip THEN respawn(n, p, t, i) ELSE n
    ELSE LET n1 == IF n.state = "patrol"
                       THEN LET m == patrol_behavior(n, i)
                            IN IF m.exc # "none" THEN m ELSE look_for_player(m, p, t, i)
                   ELSE IF n.state = "engage" THEN combat_behavior(n, p, t, i)
                   ELSE IF n.state = "retreat" THEN retreat_behavior(n, p, t, i)
                   ELSE IF n.state = "hide" THEN hide_behavior(n, p, t, i)
                   ELSE n
         IN IF n1.exc # "none" THEN n1 ELSE forget_player(n1, t, i)

\* update, the player's side: the damage of a shot fired on this tick
update_player(n, p, t, i) ==
    IF n.alive /\ n.state = "engage" /\ FireDue(n, p, t, i)
    THEN fire_at_player_damage(n, p, t, i)
    ELSE p

-----------------------------------------------------------------------------
(* Inputs of one update tick                                               *)

NoAdapt == [tac_r |-> 95, tac_i |-> 1]

\* The inputs of a tick that reads none; far and k are the geometry and the
\* draw of a respawn: the first spawn point, far enough from the player.
NoInput ==
    [dist |-> 40, ray |-> "none", reached |-> FALSE, num |-> 3, cover |-> FALSE,
     r_hide |-> 5, r_engage |-> 95, r_hit |-> 95, r_rec |-> 95, moving |-> FALSE,
     rec_r |-> 95, da |-> NoAdapt, far |-> {1}, k |-> 1]

\* The draws of record_experience and adapt_behavior matter only when the
\* record appended is at least the fifth.
RecDraws(n) ==
    IF Len(n.experience) + 1 >= MinExperience
    THEN {<<r, da>> : r \in Draws, da \in AdaptDraws}
    ELSE {<<95, NoAdapt>>}

Perceptions == [dist : Distances, ray : Rays]

\* An environment bounds what the surroundings feed the handlers: steps the
\* frame steps, percs what the NPC's perception query meets, hit and rec the
\* draws of a shot (damage roll, recorded roll), moving whether the player
\* moves, amounts the amounts of damage.
\* An input is enumerated only where the branch of update taken in state n
\* reads it: num where a patrol path is generated, cover where a hiding spot
\* is looked for, a draw where it is compared.
NumRead(n) == IF n.waypoints = <<>> THEN NumPoints ELSE {3}
CoverRead(n) ==
    IF n.waypoints = <<>> \/ n.current_waypoint >= Len(n.waypoints) THEN BOOLEAN ELSE {FALSE}
Unseen(p, env) == {q \in env.percs : ~can_see_player(p, q.dist, q.ray)}
Seen(p, env) == {q \in env.percs : can_see_player(p, q.dist, q.ray)}
FireDraws(n, t, env) ==
    IF 1000 * (t - n.last_fire_time) >= n.fire_cooldown
    THEN {<<rh, rr, mv, rd>> : rh \in env.hit, rr \in env.rec, mv \in env.moving,
                               rd \in RecDraws(n)}
    ELSE {<<95, 95, FALSE, <<95, NoAdapt>> >>}

UpdateInputs(n, p, t, env) ==
    IF ~n.alive
    THEN {[NoInput EXCEPT !.num = num] : num \in NumPoints}
    ELSE IF n.state = "patrol"
    THEN {[NoInput EXCEPT !.dist = pc.dist, !.ray = pc.ray, !.reached = re, !.num = num] :
            pc \in env.percs, re \in BOOLEAN, num \in NumRead(n)}
    ELSE IF n.state = "engage"
    THEN {[NoInput EXCEPT !.dist = pc.dist, !.ray = pc.ray, !.r_hide = r, !.cover = c] :
            pc \in Unseen(p, env), r \in Draws, c \in BOOLEAN}
         \cup
         {[NoInput EXCEPT !.dist = pc.dist, !.ray = pc.ray, !.r_hit = f[1], !.r_rec = f[2],
                          !.moving = f[3], !.rec_r = f[4][1], !.da = f[4][2]] :
            pc \in Seen(p, env), f \in FireDraws(n, t, env)}
    ELSE IF n.state = "retreat"
    THEN {[NoInput EXCEPT !.reached = re, !.cover = c] : re \in BOOLEAN, c \in CoverRead(n)}
    ELSE {[NoInput EXCEPT !.dist = pc.dist, !.ray = pc.ray, !.r_engage = 95, !.num = num] :
            pc \in Unseen(p, env), num \in NumPoints}
         \cup
         {[NoInput EXCEPT !.dist = pc.dist, !.ray = pc.ray, !.r_engage = r, !.num = num] :
            pc \in Seen(p, env), r \in Draws, num \in NumPoints}

\* The inputs of an operation that may end in die.
DeathDrawsRead == {d \in DeathDraws : d.re_r < 30 \/ d.re_tac = "camper"}

NoDeath == [aggr_j |-> 20, pat_j |-> -2, react_j |-> 80, re_r |-> 5, re_tac |-> "camper"]

\* The inputs that take_damage(dmg), or a weapon hit of that damage, can read
\* in state n: the draws of die when the damage is lethal, the re-roll of the
\* state when it leaves at least LowHealth.
DamageInputs(n, dmg) ==
    IF n.health - dmg <= 0
    THEN {[r |-> 95, choice |-> "engage", cover |-> FALSE, dist |-> 12,
           rec_r |-> rd[1], da |-> rd[2], dd |-> dd] :
            rd \in RecDraws(n), dd \in DeathDrawsRead}
    ELSE IF n.health - dmg < LowHealth
    THEN {[r |-> 95, choice |-> "engage", cover |-> FALSE, dist |-> 12,
           rec_r |-> 95, da |-> NoAdapt, dd |-> NoDeath]}
    ELSE {[r |-> 95, choice |-> "engage", cover |-> FALSE, dist |-> 12,
           rec_r |-> 95, da |-> NoAdapt, dd |-> NoDeath]}
         \cup
         {[r |-> 5, choice |-> ch[1], cover |-> ch[2], dist |-> 12,
           rec_r |-> 95, da |-> NoAdapt, dd |-> NoDeath] :
            ch \in {<<"engage", FALSE>>, <<"retreat", FALSE>>, <<"hide", FALSE>>,
                    <<"hide", TRUE>>}}

-----------------------------------------------------------------------------
(* History read by the properties                                          *)

\* blind_since: the time of the last tick on which the NPC perceived the
\*   target and was left in engage with a last known position, while every
\*   later operation was an update tick of the living NPC that did not
\*   perceive the target; None otherwise.
\* sight_since: the time of the first tick of the present unbroken run of
\*   patrol ticks that perceived the target; None when the last tick was not
\*   such a tick, or the NPC left patrol or died since.
\* hide_entry: the time at which the NPC entered hide, while it is in hide.
NoHist == [blind_since |-> None, sight_since |-> None, hide_entry |-> None]

HistAfterUpdate(h, n, m, p, t, i) ==
    LET sees == can_see_player(p, i.dist, i.ray)
    IN IF ~n.alive THEN NoHist
       ELSE [blind_since |->
                 IF sees
                 THEN IF m.state = "engage" /\ m.last_seen_player_pos THEN t ELSE None
                 ELSE h.blind_since,
             sight_since |->
                 IF n.state = "patrol" /\ sees
                 THEN IF h.sight_since = None THEN t ELSE h.sight_since
                 ELSE None,
             hide_entry |->
                 IF m.state = "hide"
                 THEN IF n.state # "hide" THEN t ELSE h.hide_entry
                 ELSE None]

\* After take_damage or a weapon hit at time t: m is the NPC afterwards.
HistAfterDamage(h, n, m, t) ==
    IF ~m.alive THEN NoHist
    ELSE [blind_since |-> None,
          sight_since |-> IF m.state = "patrol" THEN h.sight_since ELSE None,
          hide_entry |->
              IF m.state = "hide"
              THEN IF n.state # "hide" \/ m.hiding_start_time = t THEN t ELSE h.hide_entry
              ELSE None]

-----------------------------------------------------------------------------
(* The game of mane.py: one AdaptiveNPC, the player, the round callbacks   *)

\* invoke(fn, delay=d) at time t: fn waits in pending with the time it is due.
Invoke(pend, fn, t, d) == [pend EXCEPT ![fn] = t + d]
Done(pend, fn) == [pend EXCEPT ![fn] = None]
Due(pend, fn, t) == pend[fn] # None /\ t >= pend[fn]
NothingPending ==
    [fn \in {"check_round_status", "start_next_round", "end_game"} |-> None]

LogBound(n, m) == m.experience = n.experience \/ Len(n.experience) < MaxLog

\* The EnemyNPC of npc.py is not part of this game.
NoEnemy == [health |-> 0]
NoObs == [health |-> None]
NoTarget == [present |-> FALSE]
\* Nor is a CombatEnvironment.
NoCombatEnv == [present |-> FALSE]

EnemyUnchanged == UNCHANGED <<enemy, target, obs, combat_env>>

\* start_game: the player and the enemies are created, round 1 begins and
\* check_round_status is scheduled.
Init ==
    /\ now = StartTime
    /\ npc \in {AdaptiveNPC(c) : c \in InitChoices}
    /\ player = FPSPlayer
    /\ round_in_progress = TRUE
    /\ current_round = 1
    /\ spawned = TRUE
    /\ pending = Invoke(NothingPending, "check_round_status", StartTime, CheckDelay)
    /\ enemy = NoEnemy /\ target = NoTarget /\ obs = NoObs
    /\ combat_env = NoCombatEnv
    /\ op = "step"
    /\ hist = NoHist

\* Past due times are all alike: the callback is ready.
Elapse(pend, t) ==
    [fn \in DOMAIN pend |-> IF pend[fn] # None /\ pend[fn] <= t THEN 0 ELSE pend[fn]]

\* One frame: the clock advances by dt and AdaptiveNPC.update runs.
Update(env) ==
    /\ spawned
    /\ \E dt \in env.steps :
         /\ now + dt <= StartTime + MaxTime
         /\ now' = now + dt
         /\ pending' = Elapse(pending, now + dt)
         /\ \E i \in UpdateInputs(npc, player, now + dt, env) :
              /\ npc' = update(npc, player, now + dt, round_in_progress, i)
              /\ LogBound(npc, npc')
              /\ player' = update_player(npc, player, now + dt, i)
              /\ hist' = HistAfterUpdate(hist, npc, npc', player, now + dt, i)
    /\ op' = "step"
    /\ UNCHANGED <<round_in_progress, current_round, spawned>>
    /\ EnemyUnchanged

\* A call of AdaptiveNPC.take_damage(amount).
TakeDamage(env) ==
    /\ spawned
    /\ \E amount \in env.amounts : \E i \in DamageInputs(npc, amount) :
         /\ npc' = take_damage(npc, player, now, amount, i)
         /\ LogBound(npc, npc')
         /\ hist' = HistAfterDamage(hist, npc, npc', now)
    /\ op' = "step"
    /\ UNCHANGED <<now, player, round_in_progress, current_round, spawned, pending>>
    /\ EnemyUnchanged

\* The player's Weapon.fire in the case that its ray hits the NPC: the
\* player is alive (FPSPlayer.update fires the gun) and the NPC has its
\* collider.
WeaponFire ==
    /\ spawned /\ player.present /\ player.alive /\ npc.collider
    /\ \E i \in DamageInputs(npc, WeaponDamage) :
         /\ npc' = Weapon_fire_hit(npc, player, now, i)
         /\ LogBound(npc, npc')
         /\ hist' = HistAfterDamage(hist, npc, npc', now)
    /\ op' = "step"
    /\ UNCHANGED <<now, player, round_in_progress, current_round, spawned, pending>>
    /\ EnemyUnchanged

\* A call of AdaptiveNPC.die().  Its callers (take_damage, Weapon.fire) call it
\* on health <= 0.
Die ==
    /\ spawned /\ npc.health <= 0
    /\ \E i \in DamageInputs(npc, 0) :
         /\ npc' = die(npc, player, now, i.dist, i.rec_r, i.da, i.dd)
         /\ LogBound(npc, npc')
         /\ hist' = HistAfterDamage(hist, npc, npc', now)
    /\ op' = "die"
    /\ UNCHANGED <<now, player, round_in_progress, current_round, spawned, pending>>
    /\ EnemyUnchanged

\* FPSPlayer.update of a dead player: respawn after respawn_time.
PlayerUpdate ==
    /\ player.present /\ ~player.alive
    /\ now - player.death_time >= PlayerRespawnTime /\ round_in_progress
    /\ player' = FPSPlayer_respawn(player)
    /\ UNCHANGED <<now, npc, round_in_progress, current_round, spawned, pending, op, hist>>
    /\ EnemyUnchanged

\* check_round_status: others_dead says whether the other enemies of the
\* round are all dead.
CheckRoundStatus ==
    /\ Due(pending, "check_round_status", now)
    /\ \E others_dead \in BOOLEAN :
         IF ~round_in_progress
         THEN /\ pending' = Done(pending, "check_round_status")
              /\ UNCHANGED <<round_in_progress, current_round>>
         ELSE IF others_dead /\ ~npc.alive
         THEN /\ round_in_progress' = FALSE
              /\ IF current_round < MAX_ROUNDS
                 THEN /\ current_round' = current_round + 1
                      /\ pending' = Invoke(Done(pending, "check_round_status"),
                                           "start_next_round", now, NextRoundDelay)
                 ELSE /\ current_round' = current_round
                      /\ pending' = Invoke(Done(pending, "check_round_status"),
                                           "end_game", now, EndGameDelay)
         ELSE /\ pending' = Invoke(pending, "check_round_status", now, CheckDelay)
              /\ UNCHANGED <<round_in_progress, current_round>>
    /\ UNCHANGED <<now, npc, player, spawned, op, hist>>
    /\ EnemyUnchanged

\* The difficulty of the round applied to a fresh enemy by start_next_round.
scale_for_round(n, round) ==
    [n EXCEPT !.max_health = 100 + (round - 1) * 20,
              !.health = 100 + (round - 1) * 20,
              !.accuracy = Min(AccuracyCap, @ + 5 * (round - 1)),
              !.reaction_time = Max(300, @ - 100 * (round - 1))]

\* start_next_round: spawn_enemies creates new enemies, which are then scaled.
\* Its first statement reads player.stats_text: with the player torn down
\* it raises AttributeError and the callback ends there.
StartNextRound ==
    /\ Due(pending, "start_next_round", now)
    /\ IF player.present
       THEN /\ \E c \in InitChoices : npc' = scale_for_round(AdaptiveNPC(c), current_round)
            /\ spawned' = TRUE
            /\ round_in_progress' = TRUE
            /\ pending' = Invoke(Done(pending, "start_next_round"), "check_round_status",
                                 now, CheckDelay)
            /\ hist' = NoHist
            /\ op' = "step"
       ELSE /\ pending' = Done(pending, "start_next_round")
            /\ op' = "AttributeError"
            /\ UNCHANGED <<npc, spawned, round_in_progress, hist>>
    /\ UNCHANGED <<now, player, current_round>>
    /\ EnemyUnchanged

\* end_game: the enemies and the player are destroyed.
EndGame ==
    /\ Due(pending, "end_game", now)
    /\ spawned' = FALSE
    /\ player' = [player EXCEPT !.present = FALSE]
    /\ round_in_progress' = FALSE
    /\ pending' = Done(pending, "end_game")
    /\ op' = "step"
    /\ UNCHANGED <<now, npc, current_round, hist>>
    /\ EnemyUnchanged

\* input('escape') while the menu is hidden: end_game at once.  The
\* callbacks that wait in pending stay there.
EscapeKey ==
    /\ spawned
    /\ spawned' = FALSE
    /\ player' = [player EXCEPT !.present = FALSE]
    /\ round_in_progress' = FALSE
    /\ op' = "end_game"
    /\ UNCHANGED <<now, npc, current_round, pending, hist>>
    /\ EnemyUnchanged

\* A frame of the menu: the clock advances, no entity is left to update.
MenuFrame ==
    /\ ~spawned
    /\ \E dt \in TickSteps :
         /\ now + dt <= StartTime + MaxTime
         /\ now' = now + dt
         /\ pending' = Elapse(pending, now + dt)
    /\ UNCHANGED <<npc, player, round_in_progress, current_round, spawned, op, hist>>
    /\ EnemyUnchanged

\* The game with the player out of the NPC's sight: damage, death, respawn,
\* retreat and the rounds.
GameEnv ==
    [steps |-> TickSteps, percs |-> {[dist |-> 40, ray |-> "none"]}, hit |-> Draws,
     rec |-> Draws, moving |-> BOOLEAN, amounts |-> Amounts]

Next ==
    \/ Update(GameEnv)
    \/ TakeDamage(GameEnv)
    \/ WeaponFire
    \/ Die
    \/ CheckRoundStatus
    \/ StartNextRound

Spec == Init /\ [][Next]_vars

\* The rounds of a game that the escape key may end at any moment.
NextRounds ==
    \/ Update(GameEnv)
    \/ TakeDamage(GameEnv)
    \/ CheckRoundStatus
    \/ StartNextRound
    \/ EscapeKey
    \/ MenuFrame

SpecRounds == Init /\ [][NextRounds]_vars

\* One round with the player in and out of sight: perception, the timers of
\* the tactical states, the shots of the NPC.
TacticsEnv ==
    [steps |-> TickSteps,
     percs |-> {[dist |-> 12, ray |-> "player"], [dist |-> 12, ray |-> "other"],
                [dist |-> 40, ray |-> "player"]},
     hit |-> {95}, rec |-> {95},
     moving |-> {FALSE}, amounts |-> Amounts]

NextTactics ==
    \/ Update(TacticsEnv)
    \/ TakeDamage(TacticsEnv)

SpecTactics == Init /\ [][NextTactics]_vars

-----------------------------------------------------------------------------
(* EnemyNPC (npc.py) and the Player it shoots at (player.py)               *)

ShootCooldown == 500
GunDamage == 10
EnemyInitialHealth == 100
EnemyInitialAmmo == 30

\* The NPC moves in a corridor of 2 * MaxPos + 1 cells; a move that would
\* leave it is not taken.
MaxPos == 1

\* Positions are grid points <<x, z>>; rotation_y counts quarter turns.
Positions == (-MaxPos..MaxPos) \X {0}
Forward(rot) == <<<<0, 1>>, <<1, 0>>, <<0, -1>>, <<-1, 0>>>>[rot + 1]
Right(rot) == Forward((rot + 1) % 4)
Plus(pos, d) == <<pos[1] + d[1], pos[2] + d[2]>>
Minus(d) == <<-d[1], -d[2]>>

\* action indices handed to apply_action: 0..7 and two that are out of range
ActionIndices == -1..8
\* amounts passed to EnemyNPC.take_damage
EnemyAmounts == {0, 60}
\* reset_state arguments; None is the default of an argument not given.
\* the position argument when it is not given
NoPosition == <<>>
ResetPositions == {NoPosition, <<1, 0>>}
ResetHealths == {None, 50}
ResetAmmos == {None, 1}
\* rotation_y = random.uniform(0, 360)
ResetRotations == {0, 3}
\* gun_damage * random.uniform(0.8, 1.2)
ShotDamages == {GunDamage}

\* Player.__init__ of player.py
Player == [present |-> TRUE, health |-> 100, max_health |-> 100, is_alive |-> TRUE]

Player_die(p) ==
    IF ~p.is_alive THEN p ELSE [p EXCEPT !.is_alive = FALSE, !.health = 0]

Player_take_damage(p, amount) ==
    IF ~p.is_alive THEN p
    ELSE LET p1 == [p EXCEPT !.health = @ - amount]
         IN IF p1.health <= 0 THEN Player_die([p1 EXCEPT !.health = 0]) ELSE p1

\* EnemyNPC.__init__; action_history, kept for analysis and never read, is
\* left out.
EnemyNPC(position) ==
    [health |-> EnemyInitialHealth, max_health |-> EnemyInitialHealth,
     ammo |-> EnemyInitialAmmo, max_ammo |-> EnemyInitialAmmo,
     position |-> position, rotation_y |-> 0,
     state |-> "idle", last_damage_time |-> 0, last_shot_time |-> 0,
     collider |-> TRUE, ai_controlled_rotation |-> FALSE]

\* move: the position shifts by one step in the direction
EnemyNPC_move(e, d) == [e EXCEPT !.position = Plus(@, d)]

EnemyNPC_turn(e, amount) == [e EXCEPT !.rotation_y = (@ + amount) % 4]

\* the early returns without the one on the cooldown
ShotFired_ignores_cooldown(e, tg, t) ==
    /\ tg.present
    /\ ~(e.ammo <= 0)

\* the early returns without the one on ammo
ShotFired_ignores_ammo(e, tg, t) ==
    /\ tg.present
    /\ ~(1000 * (t - e.last_shot_time) < ShootCooldown)

\* Whether shoot_at_player gets past its early returns
ShotFired(e, tg, t) ==
    /\ tg.present
    /\ ~(1000 * (t - e.last_shot_time) < ShootCooldown)
    /\ ~(e.ammo <= 0)

\* clamp(1.0 - distance / 50.0, 0.2, 0.9), times 0.7 for a fast player;
\* random.random() <= hit_chance, in hundredths
EnemyHitRoll(r, dist, fast) ==
    LET chance == Max(20, Min(90, 100 - 2 * dist))
    IN IF fast THEN r * 10 <= chance * 7 ELSE r <= chance

\* The inputs of shoot_at_player: i.ray the raycast, i.dist the distance,
\* i.fast whether the player's speed exceeds 3, i.r the roll, i.damage the
\* damage drawn.
ShotInputs ==
    [ray : Rays, dist : {12}, fast : BOOLEAN, r : {5, 60, 95}, damage : ShotDamages]

\* shoot_at_player spending ammo and restarting the cooldown only on a hit
EnemyNPC_shoot_at_player_on_hit(e, tg, t, i) ==
    IF ShotFired(e, tg, t) /\ i.ray = "player" /\ EnemyHitRoll(i.r, i.dist, i.fast)
    THEN [e EXCEPT !.last_shot_time = t, !.ammo = @ - 1]
    ELSE e

\* shoot_at_player, the NPC's side
EnemyNPC_shoot_at_player(e, tg, t, i) ==
    IF ShotFired(e, tg, t)
    THEN [e EXCEPT !.last_shot_time = t, !.ammo = @ - 1]
    ELSE e

\* shoot_at_player, the player's side
EnemyNPC_shot_damage(e, tg, t, i) ==
    IF ShotFired(e, tg, t) /\ i.ray = "player" /\ EnemyHitRoll(i.r, i.dist, i.fast)
    THEN Player_take_damage(tg, i.damage)
    ELSE tg

EnemyNPC_apply_action(e, tg, t, a, i) ==
    LET e0 == [e EXCEPT !.ai_controlled_rotation = FALSE]
    IN IF a = 0 THEN EnemyNPC_move([e0 EXCEPT !.state = "seeking"], Forward(e0.rotation_y))
       ELSE IF a = 1
           THEN EnemyNPC_move([e0 EXCEPT !.state = "retreating"], Minus(Forward(e0.rotation_y)))
       ELSE IF a = 2
           THEN EnemyNPC_move([e0 EXCEPT !.state = "strafing_left"], Minus(Right(e0.rotation_y)))
       ELSE IF a = 3
           THEN EnemyNPC_move([e0 EXCEPT !.state = "strafing_right"], Right(e0.rotation_y))
       ELSE IF a = 4
           THEN [EnemyNPC_turn([e0 EXCEPT !.state = IF @ # "idle" THEN @ ELSE "searching"], -1)
                    EXCEPT !.ai_controlled_rotation = TRUE]
       ELSE IF a = 5
           THEN [EnemyNPC_turn([e0 EXCEPT !.state = IF @ # "idle" THEN @ ELSE "searching"], 1)
                    EXCEPT !.ai_controlled_rotation = TRUE]
       ELSE IF a = 6
           THEN EnemyNPC_shoot_at_player([e0 EXCEPT !.state = "attacking"], tg, t, i)
       ELSE IF a = 7 THEN [e0 EXCEPT !.state = "idle"]
       ELSE e0

\* die without health = 0
EnemyNPC_die_keeps_health(e) == [e EXCEPT !.state = "dead", !.collider = FALSE]

EnemyNPC_die(e) == [e EXCEPT !.health = 0, !.state = "dead", !.collider = FALSE]

EnemyNPC_take_damage(e, t, amount) ==
    IF e.health <= 0 THEN e
    ELSE LET e1 == [e EXCEPT !.health = @ - amount, !.last_damage_time = t]
         IN IF e1.health <= 0 THEN EnemyNPC_die(e1) ELSE e1

\* reset_state without the assignment of ammo and max_ammo
EnemyNPC_reset_state_keeps_ammo(e, position, health, ammo, rot) ==
    LET e1 == IF position # NoPosition THEN [e EXCEPT !.position = position] ELSE e
        e2 == IF health # None THEN [e1 EXCEPT !.health = health, !.max_health = health]
              ELSE e1
    IN [e2 EXCEPT !.rotation_y = rot, !.last_damage_time = 0, !.last_shot_time = 0,
                  !.state = "idle", !.collider = TRUE]

\* reset_state: rot is the rotation drawn
EnemyNPC_reset_state(e, position, health, ammo, rot) ==
    LET e1 == IF position # NoPosition THEN [e EXCEPT !.position = position] ELSE e
        e2 == IF health # None THEN [e1 EXCEPT !.health = health, !.max_health = health]
              ELSE e1
        e3 == IF ammo # None THEN [e2 EXCEPT !.ammo = ammo, !.max_ammo = ammo] ELSE e2
    IN [e3 EXCEPT !.rotation_y = rot, !.last_damage_time = 0, !.last_shot_time = 0,
                  !.state = "idle", !.collider = TRUE]

EnemyNPC_get_observation_info(e) ==
    [health |-> e.health, ammo |-> e.ammo, position |-> e.position, state |-> e.state,
     last_damage_time |-> e.last_damage_time, last_shot_time |-> e.last_shot_time]

\* update: a living NPC that is seeking or strafing and whose rotation the
\* last action did not set turns towards the player; facing is the rotation
\* that looks at the player.
EnemyNPC_update(e, tg, facing) ==
    IF e.health <= 0 THEN e
    ELSE IF tg.present /\ e.state \in {"seeking", "strafing_left", "strafing_right"}
            /\ ~e.ai_controlled_rotation
        THEN [e EXCEPT !.rotation_y = facing]
    ELSE e

-----------------------------------------------------------------------------
(* The EnemyNPC driven by its callers: the frame loop, an agent choosing    *)
(* actions, damage, and an environment that resets it and reads it          *)

\* The clock of this specification stops EnemyMaxTime seconds after its start.
EnemyMaxTime == 1
\* reset_state is called at most MaxResets times.
MaxResets == 1

\* The game of mane.py is not part of this specification.
NoNPC == [alive |-> FALSE]
NoPlayer == [present |-> FALSE]
\* What the properties read of the calls made: reset tells that the last
\* call was reset_state, not counting calls of get_observation_info, args
\* its arguments, dead_before whether the NPC was dead when it was called,
\* resets the number of calls of reset_state, shot that the last call was
\* shoot_at_player, made directly or by apply_action, fired that it got
\* past its early returns, and visible that its raycast hit the player.
NoArgs == [position |-> NoPosition, health |-> None, ammo |-> None]
NoReset ==
    [reset |-> FALSE, args |-> NoArgs, dead_before |-> FALSE, resets |-> 0,
     shot |-> FALSE, fired |-> FALSE, visible |-> FALSE]
AfterCall(h) == [NoReset EXCEPT !.resets = h.resets]
AfterShot(h, i, fired) ==
    [AfterCall(h) EXCEPT !.shot = TRUE, !.fired = fired,
                         !.visible = (fired /\ i.ray = "player")]

GameUnchanged ==
    UNCHANGED <<npc, player, round_in_progress, current_round, spawned, pending, op,
                combat_env>>

InitEnemy ==
    /\ now = StartTime
    /\ npc = NoNPC /\ player = NoPlayer
    /\ round_in_progress = FALSE /\ current_round = 0
    /\ spawned = FALSE /\ pending = NothingPending
    /\ enemy = EnemyNPC(<<0, 0>>)
    /\ target \in {Player, NoTarget}
    /\ obs = NoObs
    /\ combat_env = NoCombatEnv
    /\ op = "step"
    /\ hist = NoReset

InGrid(e) == e.position \in Positions

\* the inputs of a shot that reads none of them
NoShot == [ray |-> "none", dist |-> 12, fast |-> FALSE, r |-> 5, damage |-> GunDamage]

\* One frame: the clock advances and update runs
EnemyUpdate ==
    /\ now < StartTime + EnemyMaxTime
    /\ \E facing \in 0..3 :
         /\ (facing # 0 => /\ enemy.health > 0 /\ target.present
                           /\ enemy.state \in {"seeking", "strafing_left", "strafing_right"}
                           /\ ~enemy.ai_controlled_rotation)
         /\ enemy' = EnemyNPC_update(enemy, target, facing)
    /\ now' = now + 1
    /\ obs' = NoObs /\ hist' = AfterCall(hist)
    /\ UNCHANGED target
    /\ GameUnchanged

ApplyAction ==
    /\ \E a \in ActionIndices, i \in ShotInputs :
         /\ (a # 6 \/ ~ShotFired(enemy, target, now)) => i = NoShot
         /\ i.ray # "player" => (i.r = NoShot.r /\ i.fast = NoShot.fast)
         /\ InGrid(EnemyNPC_apply_action(enemy, target, now, a, i))
         /\ enemy' = EnemyNPC_apply_action(enemy, target, now, a, i)
         /\ target' = IF a = 6 THEN EnemyNPC_shot_damage(enemy, target, now, i) ELSE target
         /\ hist' = IF a = 6 THEN AfterShot(hist, i, ShotFired(enemy, target, now))
                     ELSE AfterCall(hist)
    /\ obs' = NoObs
    /\ UNCHANGED now
    /\ GameUnchanged

ShootAtPlayer ==
    /\ \E i \in ShotInputs :
         /\ ~ShotFired(enemy, target, now) => i = NoShot
         /\ i.ray # "player" => (i.r = NoShot.r /\ i.fast = NoShot.fast)
         /\ enemy' = EnemyNPC_shoot_at_player(enemy, target, now, i)
         /\ target' = EnemyNPC_shot_damage(enemy, target, now, i)
         /\ hist' = AfterShot(hist, i, ShotFired(enemy, target, now))
    /\ obs' = NoObs
    /\ UNCHANGED now
    /\ GameUnchanged

EnemyTakeDamage ==
    /\ \E amount \in EnemyAmounts :
         enemy' = EnemyNPC_take_damage(enemy, now, amount)
    /\ obs' = NoObs /\ hist' = AfterCall(hist)
    /\ UNCHANGED <<now, target>>
    /\ GameUnchanged

ResetState ==
    /\ hist.resets < MaxResets
    /\ \E position \in ResetPositions, health \in ResetHealths, ammo \in ResetAmmos,
          rot \in ResetRotations :
         /\ enemy' = EnemyNPC_reset_state(enemy, position, health, ammo, rot)
         /\ hist' = [NoReset EXCEPT
                         !.reset = TRUE,
                         !.args = [position |-> position, health |-> health, ammo |-> ammo],
                         !.dead_before = enemy.state = "dead",
                         !.resets = hist.resets + 1]
    /\ obs' = NoObs
    /\ UNCHANGED <<now, target>>
    /\ GameUnchanged

GetObservationInfo ==
    /\ obs' = EnemyNPC_get_observation_info(enemy)
    /\ UNCHANGED <<now, enemy, target, hist>>
    /\ GameUnchanged

NextEnemy ==
    \/ EnemyUpdate
    \/ ApplyAction
    \/ ShootAtPlayer
    \/ EnemyTakeDamage
    \/ ResetState
    \/ GetObservationInfo

SpecEnemy == InitEnemy /\ [][NextEnemy]_vars

-----------------------------------------------------------------------------
(* The experience log of one AdaptiveNPC and its adaptation                 *)

\* accuracy = random.uniform(0.5, 0.8) at spawn, in hundredths
SpawnAccuracies == {50, 63, 80}

\* The records fed to the log: a miss and a hit from mid range, and a death.
LogRecords == {FireRecord(FALSE, 12, FALSE), FireRecord(TRUE, 12, TRUE), DiedRecord(12)}

\* An NPC as spawned for a round, its log empty.
InitAdapt ==
    /\ now = StartTime
    /\ \E c \in InitChoices, acc \in SpawnAccuracies, round \in 1..MAX_ROUNDS :
         npc = scale_for_round([AdaptiveNPC(c) EXCEPT !.accuracy = acc], round)
    /\ player = FPSPlayer
    /\ round_in_progress = TRUE /\ current_round = 1
    /\ spawned = TRUE /\ pending = NothingPending
    /\ enemy = NoEnemy /\ target = NoTarget /\ obs = NoObs
    /\ combat_env = NoCombatEnv
    /\ op = "step"
    /\ hist = NoHist

\* record_experience(data), which runs adapt_behavior on a log of at least
\* MinExperience records when its draw r is below 0.2; op tells whether it
\* ran.
RecordExperience ==
    /\ hist = NoHist
    /\ Len(npc.experience) < MaxBuf
    /\ \E data \in LogRecords, r \in {5, 95} :
         /\ npc' = record_experience(npc, data, r, NoAdapt)
         /\ op' = IF Len(npc.experience) + 1 >= MinExperience /\ r < 20
                  THEN "adapt" ELSE "record"
    /\ UNCHANGED <<now, player, round_in_progress, current_round, spawned, pending, hist>>
    /\ EnemyUnchanged

\* An NPC as spawned for the first or the last round with its tunables at
\* the low or at the high ends of the ranges __init__ draws them from;
\* hist counts the adaptations applied to it.
InitTuning ==
    /\ now = StartTime
    /\ \E c \in InitChoices, high \in BOOLEAN, round \in {1, MAX_ROUNDS} :
         npc = scale_for_round(
                   [AdaptiveNPC(c) EXCEPT !.aggressiveness = IF high THEN 70 ELSE 30,
                                          !.patience = IF high THEN 15 ELSE 5,
                                          !.reaction_time = IF high THEN 1500 ELSE 500,
                                          !.accuracy = IF high THEN 80 ELSE 50],
                   round)
    /\ player = FPSPlayer
    /\ round_in_progress = TRUE /\ current_round = 1
    /\ spawned = TRUE /\ pending = NothingPending
    /\ enemy = NoEnemy /\ target = NoTarget /\ obs = NoObs
    /\ combat_env = NoCombatEnv
    /\ op = "spawn"
    /\ hist = [tunes |-> 0]

\* adapt_behavior on a log of MinExperience shots: all misses or all hits,
\* at a player standing or moving.
AdaptBehavior ==
    /\ DOMAIN hist = {"tunes"} /\ hist.tunes < MaxTunes
    /\ \E hit \in BOOLEAN, moving \in BOOLEAN :
         npc' = adapt_behavior(
                    [npc EXCEPT !.experience =
                                    Repeat(FireRecord(hit, 12, moving), MinExperience)],
                    NoAdapt)
    /\ hist' = [tunes |-> hist.tunes + 1]
    /\ op' = "adapt_behavior"
    /\ UNCHANGED <<now, player, round_in_progress, current_round, spawned, pending>>
    /\ EnemyUnchanged

\* adapt_after_death with its draws at the ends of their ranges.
AdaptAfterDeath ==
    /\ DOMAIN hist = {"tunes"} /\ hist.tunes < MaxTunes
    /\ \E up \in BOOLEAN :
         npc' = adapt_after_death(
                    npc, [aggr_j |-> IF up THEN 20 ELSE -20, pat_j |-> IF up THEN 2 ELSE -2,
                          react_j |-> IF up THEN 120 ELSE 80, re_r |-> 95,
                          re_tac |-> "camper"])
    /\ hist' = [tunes |-> hist.tunes + 1]
    /\ op' = "adapt_after_death"
    /\ UNCHANGED <<now, player, round_in_progress, current_round, spawned, pending>>
    /\ EnemyUnchanged

\* An NPC whose log is one record short of full: fire records that miss a
\* standing player and hit a moving one in turn, every third record a death.
InitFullLog ==
    /\ now = StartTime
    /\ \E c \in InitChoices, m \in 0..2 :
         npc = [AdaptiveNPC(c) EXCEPT
                    !.experience =
                        [k \in 1..(ExperienceMaxLen - 1) |->
                            IF k % 3 = m THEN DiedRecord(12)
                            ELSE IF k % 2 = 0 THEN FireRecord(FALSE, 12, FALSE)
                            ELSE FireRecord(TRUE, 12, TRUE)]]
    /\ player = FPSPlayer
    /\ round_in_progress = TRUE /\ current_round = 1
    /\ spawned = TRUE /\ pending = NothingPending
    /\ enemy = NoEnemy /\ target = NoTarget /\ obs = NoObs
    /\ combat_env = NoCombatEnv
    /\ op = "spawn"
    /\ hist = [appends |-> 0]

\* record_experience(data) on a log that is full or about to be; hist counts
\* the calls.
RecordOnFullLog ==
    /\ DOMAIN hist = {"appends"} /\ hist.appends < MaxAppends
    /\ \E data \in LogRecords, r \in {5, 95} :
         npc' = record_experience(npc, data, r, NoAdapt)
    /\ hist' = [appends |-> hist.appends + 1]
    /\ op' = "append"
    /\ UNCHANGED <<now, player, round_in_progress, current_round, spawned, pending>>
    /\ EnemyUnchanged

NextAdapt ==
    \/ RecordExperience
    \/ RecordOnFullLog
    \/ AdaptBehavior
    \/ AdaptAfterDeath

SpecAdapt == (InitAdapt \/ InitTuning \/ InitFullLog) /\ [][NextAdapt]_vars

-----------------------------------------------------------------------------
(* A patrolling AdaptiveNPC whose waypoint list has been emptied            *)

\* The NPC as __init__ has it between the assignment of the empty list and
\* the generation of the first path, handed to the frame loop; the player
\* is alive, missing, or dead of one blow.
InitPatrol ==
    /\ now = StartTime
    /\ npc \in {[AdaptiveNPC(c) EXCEPT !.waypoints = <<>>] : c \in InitChoices}
    /\ player \in {FPSPlayer, [FPSPlayer EXCEPT !.present = FALSE],
                   FPSPlayer_take_damage(FPSPlayer, StartTime, FPSPlayer.max_health)}
    /\ round_in_progress = TRUE
    /\ current_round = 1
    /\ spawned = TRUE
    /\ pending = NothingPending
    /\ enemy = NoEnemy /\ target = NoTarget /\ obs = NoObs
    /\ combat_env = NoCombatEnv
    /\ op = "step"
    /\ hist = NoHist

NextPatrol == Update(TacticsEnv)

SpecPatrol == InitPatrol /\ [][NextPatrol]_vars

-----------------------------------------------------------------------------
(* The CombatEnvironment of combat_env.py and the NPC it controls           *)

\* Module constants of combat_env.py, durations in milliseconds
NPC_INITIAL_HEALTH == 100
NPC_INITIAL_AMMO == 30
LINE_OF_SIGHT_CHECK_INTERVAL == 200
\* shoot_cooldown of the NPC class of combat_env.py
NPCShootCooldown == 200

\* The NPC class of combat_env.py: the attributes its methods and the
\* environment write. move and turn do nothing.
NPC(ammo) ==
    [health |-> NPC_INITIAL_HEALTH, max_health |-> NPC_INITIAL_HEALTH,
     ammo |-> ammo, max_ammo |-> NPC_INITIAL_AMMO,
     last_damage_time |-> 0, last_shot_time |-> 0]

NPC_shoot(n, t) == [n EXCEPT !.ammo = @ - 1, !.last_shot_time = t]

NPC_reset_state(n, health, ammo) ==
    [n EXCEPT !.health = health, !.max_health = health,
              !.ammo = ammo, !.max_ammo = ammo,
              !.last_damage_time = 0, !.last_shot_time = 0]

\* What a call of _get_obs meets: "raise" an exception before the line of
\* sight is looked at (it is caught and zeros are returned), "unavailable"
\* no raycast or no world_position, "clear" a ray that hits nothing, "blocked"
\* a ray that hits something.
LosQueries == {"raise", "unavailable", "clear", "blocked"}

\* CombatEnvironment.__init__; current_step and the health trackers of the
\* reward, which no decision of step reads, are left out.
CombatEnvironment(n) ==
    [present |-> TRUE, npc |-> n, last_los_check_time |-> 0, player_in_los |-> FALSE]

\* _get_obs, what it leaves in the environment
CombatEnvironment_get_obs(env, t, q) ==
    IF q = "raise" THEN env
    ELSE IF 1000 * (t - env.last_los_check_time) > LINE_OF_SIGHT_CHECK_INTERVAL
        THEN [env EXCEPT !.last_los_check_time = t,
                         !.player_in_los = IF q = "unavailable" THEN TRUE
                                           ELSE q = "clear"]
    ELSE env

CombatEnvironment_reset(env, t, q) ==
    CombatEnvironment_get_obs(
        [env EXCEPT !.npc = NPC_reset_state(@, NPC_INITIAL_HEALTH, NPC_INITIAL_AMMO),
                    !.last_los_check_time = t, !.player_in_los = FALSE],
        t, q)

\* Whether step(6) hands the shot to the NPC
CanShoot(env, t) ==
    /\ 1000 * (t - env.npc.last_shot_time) >= NPCShootCooldown
    /\ env.npc.ammo > 0
    /\ env.player_in_los

\* step(action) for an action of the action space; any other raises
\* ValueError before anything changes.
CombatEnvironment_step(env, t, action, q) ==
    LET env1 == IF action = 6 /\ CanShoot(env, t)
                THEN [env EXCEPT !.npc = NPC_shoot(@, t)]
                ELSE env
    IN CombatEnvironment_get_obs(env1, t, q)

\* The clock of this specification stops EnvMaxTime seconds after its start.
EnvMaxTime == 2
\* The ammunition of the NPC handed to the environment
EnvAmmos == {1, NPC_INITIAL_AMMO}

InitCombatEnv ==
    /\ now = StartTime
    /\ npc = NoNPC /\ player = NoPlayer
    /\ round_in_progress = FALSE /\ current_round = 0
    /\ spawned = FALSE /\ pending = NothingPending
    /\ enemy = NoEnemy /\ target = NoTarget /\ obs = NoObs
    /\ combat_env \in {CombatEnvironment(NPC(a)) : a \in EnvAmmos}
    /\ op = "step"
    /\ hist = NoReset

EnvUnchanged ==
    UNCHANGED <<npc, player, round_in_progress, current_round, enemy, target, obs,
                spawned, pending, hist>>

\* Time passes between two calls of the environment.
EnvTick ==
    /\ combat_env.present
    /\ now < StartTime + EnvMaxTime
    /\ now' = now + 1
    /\ op' = "step"
    /\ UNCHANGED combat_env
    /\ EnvUnchanged

\* op tells the action of the last step, "reset" a reset.
EnvReset ==
    /\ combat_env.present
    /\ \E q \in LosQueries :
         combat_env' = CombatEnvironment_reset(combat_env, now, q)
    /\ op' = "reset"
    /\ UNCHANGED now
    /\ EnvUnchanged

EnvStep ==
    /\ combat_env.present
    /\ \E action \in 0..7, q \in LosQueries :
         /\ action \notin {6, 7} => action = 0
         /\ combat_env' = CombatEnvironment_step(combat_env, now, action, q)
         /\ op' = IF action = 6 THEN "shoot" ELSE "step"
    /\ UNCHANGED now
    /\ EnvUnchanged

NextCombatEnv ==
    \/ EnvTick
    \/ EnvReset
    \/ EnvStep

SpecCombatEnv == InitCombatEnv /\ [][NextCombatEnv]_vars

-----------------------------------------------------------------------------
(* Everything that shoots: an AdaptiveNPC in its frame loop, an EnemyNPC    *)
(* under its callers, or a CombatEnvironment with its NPC                   *)

EnemyPresent == enemy # NoEnemy

InitShooting ==
    \/ Init
    \/ InitEnemy
    \/ InitCombatEnv

NextShooting ==
    \/ Update(TacticsEnv)
    \/ EnemyPresent /\ NextEnemy
    \/ NextCombatEnv

SpecShooting == InitShooting /\ [][NextShooting]_vars

-----------------------------------------------------------------------------
(* An AdaptiveNPC under fire in its frame loop, the player near it in or    *)
(* out of sight and at full health or one hit from death; both draws of a   *)
(* shot are free                                                            *)

FireEnv ==
    [steps |-> {2},
     percs |-> {[dist |-> 12, ray |-> "player"], [dist |-> 12, ray |-> "other"]},
     hit |-> {5, 95}, rec |-> {5, 95}, moving |-> {FALSE}, amounts |-> Amounts]

InitFire ==
    /\ now = StartTime
    /\ npc \in {AdaptiveNPC(c) : c \in InitChoices}
    /\ player \in {FPSPlayer,
                   FPSPlayer_take_damage(FPSPlayer, StartTime,
                                         FPSPlayer.max_health - PlayerHitDamage)}
    /\ round_in_progress = TRUE
    /\ current_round = 1
    /\ spawned = TRUE
    /\ pending = NothingPending
    /\ enemy = NoEnemy /\ target = NoTarget /\ obs = NoObs
    /\ combat_env = NoCombatEnv
    /\ op = "step"
    /\ hist = NoHist

NextFire ==
    \/ Update(FireEnv)
    \/ TakeDamage(FireEnv)

SpecFire == InitFire /\ [][NextFire]_vars

-----------------------------------------------------------------------------
(* Properties                                                              *)

\* C1: the health of an AdaptiveNPC stays within 0 and max_health after any
\* sequence of update ticks, take_damage calls with a non-negative amount,
\* weapon hits, retreat completions, respawns and round scalings.
C1_HealthInRange == 0 <= npc.health /\ npc.health <= npc.max_health

\* C2: take_damage(amount) called on a living NPC with amount >= health
\* leaves it dead with health 0.
C2_LethalDamageZeroesHealth ==
    [][\A amount \in Amounts : \A i \in DamageInputs(npc, amount) :
         (/\ npc.alive /\ amount >= npc.health
          /\ now' = now
          /\ npc' = take_damage(npc, player, now, amount, i))
         => (~npc'.alive /\ npc'.health = 0)]_vars

\* C3: an NPC left in engage with a last known position that perceives its
\* target on no update tick for more than memory_duration seconds, the ticks
\* less than memory_duration apart, is in patrol with last_seen_player_pos
\* None.
C3_MemoryExpires ==
    (npc.alive /\ hist.blind_since # None /\ now - hist.blind_since > MemoryDuration)
    => (npc.state = "patrol" /\ ~npc.last_seen_player_pos)

\* C4: an update tick moves the NPC from patrol to engage only if it has
\* perceived the target on every patrol tick for at least the preceding
\* reaction_time; losing the target, time in another state, death and
\* respawn restart the wait.
C4_EngageAfterReactionTime ==
    [][(npc.alive /\ npc.state = "patrol" /\ now' # now /\ npc'.state = "engage")
       => (/\ hist'.sight_since # None
           /\ 1000 * (now' - hist'.sight_since) >= npc.reaction_time)]_vars

\* C5: once the NPC has entered hide, an update tick does not move it from
\* hide to patrol before patience seconds have passed since the entry, and
\* the first tick after they have passed moves it to patrol with a new
\* patrol path.
C5_HidesForPatience ==
    [][(npc.alive /\ npc.state = "hide" /\ hist.hide_entry # None /\ now' # now)
       => (/\ npc'.state = "patrol" => now' - hist.hide_entry >= npc.patience
           /\ now' - hist.hide_entry > npc.patience
              => (/\ npc'.state = "patrol"
                  /\ npc'.current_waypoint = 0
                  /\ npc'.waypoints # <<>>
                  /\ \A k \in 1..Len(npc'.waypoints) : npc'.waypoints[k] = "patrol"))]_vars

\* C6: die() called on an NPC that is already dead changes nothing: the
\* death_time, the experience log and the tunables stay as the first call
\* left them.
C6_DieTwiceChangesNothing == [][(op' = "die" /\ ~npc.alive) => npc' = npc]_vars

\* die() has been called on a dead NPC whose log holds the record of its death
C6_Witness ==
    /\ op = "die" /\ ~npc.alive /\ npc.death_time >= StartTime
    /\ Len(SelectSeq(npc.experience, LAMBDA e : e.action = "died")) = 1

\* C7: alive == (health > 0) in every state between operations.
C7_AliveIffHealthPositive == npc.alive = (npc.health > 0)

\* a lethal hit has left the NPC dead
C7_WitnessDead == ~npc.alive /\ npc.health <= 0 /\ npc.experience # <<>>

\* C8: after any sequence of apply_action, shoot_at_player, take_damage
\* with a non-negative amount and reset_state calls, the EnemyNPC has
\* 0 <= health <= max_health and 0 <= ammo <= max_ammo.
C8_EnemyVitalsInRange ==
    /\ 0 <= enemy.health /\ enemy.health <= enemy.max_health
    /\ 0 <= enemy.ammo /\ enemy.ammo <= enemy.max_ammo

\* the NPC has shot its magazine empty and has then been killed
C8_Witness ==
    /\ enemy.ammo = 0 /\ enemy.last_shot_time >= StartTime
    /\ enemy.health = 0 /\ enemy.state = "dead" /\ enemy.last_damage_time >= StartTime

\* get_observation_info has been read right after a reset_state that was
\* given a position, a health and an ammo count
ObservedAfterFullReset ==
    /\ hist.reset /\ obs # NoObs
    /\ hist.args.position # NoPosition /\ hist.args.health # None /\ hist.args.ammo # None

\* C9 as stated: reset_state(position=P, health=H, ammo=A) followed at once
\* by get_observation_info returns position P, health H, ammo A and the
\* state patrol.
C9_ObservedPatrolAfterReset ==
    ObservedAfterFullReset
    => (/\ obs.position = hist.args.position /\ obs.health = hist.args.health
        /\ obs.ammo = hist.args.ammo /\ obs.state = "patrol")

\* C9, amended: reset_state(position=P, health=H, ammo=A) followed at once by
\* get_observation_info returns position P, health H, ammo A and the state
\* idle, whatever the NPC's state before the reset.
C9_ObservedIdleAfterReset ==
    ObservedAfterFullReset
    => (/\ obs.position = hist.args.position /\ obs.health = hist.args.health
        /\ obs.ammo = hist.args.ammo /\ obs.state = "idle")

\* a dead NPC has been reset with all three arguments and then read
C9_Witness == ObservedAfterFullReset /\ hist.dead_before

\* the log holds at least MinExperience fire records and every fire record
\* in it is a miss
AllMisses(log) ==
    /\ Len(SelectSeq(log, IsFire)) >= MinExperience
    /\ \A k \in 1..Len(log) : IsFire(log[k]) => ~IsHit(log[k])

\* C10: run on a log with at least 5 fire records, all of them misses,
\* adapt_behavior leaves the accuracy at min(0.9, accuracy + 0.05): it never
\* lowers it and raises it whenever it was below the cap 0.9.
C10_MissesRaiseAccuracy ==
    [][(op' = "adapt" /\ AllMisses(npc'.experience))
       => (/\ npc'.accuracy = Min(AccuracyCap, npc.accuracy + AccuracyStepUp)
           /\ npc'.accuracy >= npc.accuracy
           /\ npc.accuracy < AccuracyCap => npc'.accuracy > npc.accuracy)]_vars

\* adapt_behavior has run on a log of five misses of an NPC spawned in the
\* first round with accuracy 0.5, and has raised the accuracy to 0.55
C10_Witness ==
    /\ op = "adapt" /\ AllMisses(npc.experience)
    /\ npc.max_health = 100 /\ npc.accuracy = 55

\* C11: one update tick of a living NPC in patrol whose waypoint list is
\* empty leaves it with a list of 3 to 6 waypoints and a current_waypoint
\* that is an index into it.
C11_EmptyPathRegenerated ==
    [][(npc.alive /\ npc.state = "patrol" /\ npc.waypoints = <<>> /\ now' # now)
       => (/\ Len(npc'.waypoints) >= 3 /\ Len(npc'.waypoints) <= 6
           /\ npc'.current_waypoint >= 0
           /\ npc'.current_waypoint < Len(npc'.waypoints)
           /\ npc'.exc = "none")]_vars

\* the first tick has run on the empty list and has drawn six waypoints
C11_Witness ==
    /\ now > StartTime /\ npc.alive /\ npc.state = "patrol"
    /\ Len(npc.waypoints) = 6 /\ npc.current_waypoint = 0
    /\ npc.player_spotted_time = None


\* C12: shoot_at_player called with ammo 0 leaves ammo at 0 and
\* last_shot_time and the player as they were, and neither shoot_at_player
\* nor step(6) of the CombatEnvironment ever takes ammo below 0.
C12_NoShotWithoutAmmo ==
    /\ [](EnemyPresent => enemy.ammo >= 0)
    /\ [](combat_env.present => combat_env.npc.ammo >= 0)
    /\ [][(EnemyPresent /\ hist'.shot /\ enemy.ammo = 0)
          => (/\ enemy'.ammo = 0
              /\ enemy'.last_shot_time = enemy.last_shot_time
              /\ target' = target)]_vars

\* The last call was a shot attempt of an EnemyNPC whose cooldown had
\* elapsed and that held no ammo.
C12_Witness ==
    /\ EnemyPresent /\ hist.shot /\ target.present
    /\ enemy.ammo = 0
    /\ 1000 * (now - enemy.last_shot_time) >= ShootCooldown

\* C13: a call of shoot_at_player whose ray does not reach the player (it
\* hits another entity or nothing) leaves ammo and last_shot_time unchanged.
C13_NoShotWithoutSight ==
    [][(hist'.shot /\ target.present /\ ~hist'.visible)
       => (/\ enemy'.ammo = enemy.ammo
           /\ enemy'.last_shot_time = enemy.last_shot_time)]_vars

\* C14: no NPC fires twice within its cooldown. A call of shoot_at_player
\* made less than shoot_cooldown after last_shot_time leaves ammo and
\* last_shot_time unchanged, and a tick of AdaptiveNPC.update on which
\* fire_at_player runs (it sets last_fire_time) comes at least fire_cooldown
\* after the last_fire_time it found.
C14_NoFireWithinCooldown ==
    [][/\ (EnemyPresent /\ hist'.shot
              /\ 1000 * (now - enemy.last_shot_time) < ShootCooldown)
          => (/\ enemy'.ammo = enemy.ammo
              /\ enemy'.last_shot_time = enemy.last_shot_time)
       /\ (spawned /\ npc'.last_fire_time # npc.last_fire_time)
          => 1000 * (now' - npc.last_fire_time) >= npc.fire_cooldown]_vars

\* The last call was a shot attempt of an EnemyNPC with a target and ammo
\* that returned early: on its cooldown.
C14_Witness ==
    /\ EnemyPresent /\ hist.shot /\ ~hist.fired
    /\ target.present /\ enemy.ammo > 0
    /\ enemy.last_shot_time = now

\* C15: a call of shoot_at_player with a target that the ray reaches, the
\* cooldown elapsed and at least one round of ammo takes exactly one round
\* and sets last_shot_time to the current time, whether or not the shot hits.
C15_VisibleShotFires ==
    [][(/\ hist'.shot /\ target.present /\ hist'.visible
        /\ 1000 * (now - enemy.last_shot_time) >= ShootCooldown
        /\ enemy.ammo >= 1)
       => (/\ enemy'.ammo = enemy.ammo - 1
           /\ enemy'.last_shot_time = now)]_vars

\* The last call fired at a player in sight and missed.
C15_Witness ==
    /\ hist.shot /\ hist.fired /\ hist.visible
    /\ enemy.last_shot_time = now /\ enemy.ammo = enemy.max_ammo - 1
    /\ target.health = target.max_health

\* C16: can_see_player answers False for a player that is missing or not
\* alive, and for a player farther than the vision range whatever a ray
\* would meet (none is cast). The method assigns nothing: its model is its
\* answer.
C16_BlindWithoutTargetOrBeyondRange ==
    \A q \in Perceptions :
        (~player.present \/ ~player.alive \/ q.dist > VisionRange)
            => ~can_see_player(player, q.dist, q.ray)

\* A patrol tick has looked for a player that is missing.
C16_Witness ==
    /\ now > StartTime /\ npc.alive /\ npc.state = "patrol"
    /\ ~player.present
    /\ npc.player_spotted_time = None /\ npc.exc = "none"

\* C17: for a living player within the vision range can_see_player answers
\* True exactly when the ray meets nothing or meets the player first.
C17_SeenUnlessObstructed ==
    \A q \in Perceptions :
        (player.present /\ player.alive /\ q.dist <= VisionRange)
            => (can_see_player(player, q.dist, q.ray) <=> q.ray \in {"none", "player"})

\* C18: a tick of update with the player missing (None) raises nothing and
\* leaves the NPC in one of its tactical states, whatever state it is in.
C18_NoTargetNoRaise ==
    LET missing == [player EXCEPT !.present = FALSE]
    IN \A i \in UpdateInputs(npc, missing, now + 1, TacticsEnv) :
           LET m == update(npc, missing, now + 1, round_in_progress, i)
           IN m.exc = "none" /\ m.state \in States

\* C19: a look of _get_obs at the line of sight that finds no raycast or no
\* world positions leaves player_in_los False, so that step(6) then hands
\* no shot to the NPC.
C19_BlindWithoutRaycast ==
    (/\ combat_env.present
     /\ 1000 * (now - combat_env.last_los_check_time) > LINE_OF_SIGHT_CHECK_INTERVAL)
        => LET env == CombatEnvironment_get_obs(combat_env, now, "unavailable")
           IN ~env.player_in_los /\ ~CanShoot(env, now)

\* C20: apply_action with an index outside 0..7 leaves the NPC as the Idle
\* action (index 7) would: no move, no turn, no shot, state 'idle'.
C20_UnknownActionIsIdle ==
    \A a \in ActionIndices \ (0..7) :
        LET e == EnemyNPC_apply_action(enemy, target, now, a, NoShot)
        IN /\ e = EnemyNPC_apply_action(enemy, target, now, 7, NoShot)
           /\ e.state = "idle"

\* What adaptation tunes, and the log it learns from
Tunables(n) ==
    <<n.aggressiveness, n.accuracy, n.patience, n.reaction_time, n.tactical_preference,
      n.experience>>

\* C21: from the end of die to the end of respawn nothing touches the
\* tunables and the experience log: every step taken on a dead NPC, the tick
\* that respawns it included, leaves them as the death-time adaptation left
\* them. (The step of start_next_round replaces the NPC by a new one.)
C21_RespawnKeepsTunables ==
    [][(spawned /\ ~npc.alive /\ ~(round_in_progress' /\ ~round_in_progress))
       => Tunables(npc') = Tunables(npc)]_vars

\* An NPC that died, adapted and has respawned
C21_Witness ==
    /\ spawned /\ npc.alive /\ npc.state = "patrol" /\ npc.health = npc.max_health
    /\ Len(npc.experience) >= 1
    /\ npc.experience[Len(npc.experience)].action = "died"
    /\ npc.aggressiveness = 70 /\ npc.tactical_preference = "camper"

\* C22: the tick that respawns a dead NPC leaves it alive, at full health,
\* in patrol, with a non-empty waypoint list and the cursor on its first
\* waypoint, whatever state it died in.
C22_RespawnedInPatrol ==
    [][(spawned /\ ~npc.alive /\ npc'.alive /\ now' # now)
       => (/\ npc'.health = npc'.max_health
           /\ npc'.state = "patrol"
           /\ npc'.waypoints # <<>>
           /\ npc'.current_waypoint = 0)]_vars

\* An NPC that died and has just respawned with a patrol path of six
C22_Witness ==
    /\ spawned /\ npc.alive /\ now >= StartTime + RespawnTime
    /\ Len(npc.experience) >= 1
    /\ npc.experience[Len(npc.experience)].action = "died"
    /\ npc.health = npc.max_health /\ npc.state = "patrol"
    /\ Len(npc.waypoints) = 6 /\ npc.current_waypoint = 0

\* C23: whichever spawn points lie more than 10 units from the player and
\* whatever random.choice draws, respawn puts a dead NPC on a spawn point
\* of the map, and on one of the far ones when the player is there and
\* there is one; this also with the player missing.
C23_SpawnAwayFromPlayer ==
    (spawned /\ ~npc.alive)
        => \A far \in SUBSET (1..MaxSpawns), k \in 1..MaxSpawns,
              p \in {player, [player EXCEPT !.present = FALSE]} :
               LET m == respawn(npc, p, now, [NoInput EXCEPT !.far = far, !.k = k])
               IN /\ m.spawn_point \in 1..MaxSpawns
                  /\ (p.present /\ far # {}) => m.spawn_point \in far

\* An NPC that died and was respawned on a spawn point far from the player
C23_Witness ==
    /\ spawned /\ npc.alive /\ player.present
    /\ npc.spawn_point \in NoInput.far
    /\ npc.state = "patrol" /\ npc.current_waypoint = 0

\* C24: a tick of update on a dead NPC respawns it when at least
\* respawn_time has passed since death_time and the round is in progress,
\* and otherwise changes nothing of the NPC; in neither case does it fire,
\* record an experience or touch the player.
C24_DeadUntilRespawnTime ==
    [][(spawned /\ ~npc.alive /\ now' # now)
       => /\ player' = player
          /\ npc'.experience = npc.experience
          /\ npc'.last_fire_time = npc.last_fire_time
          /\ IF now' - npc.death_time >= RespawnTime /\ round_in_progress
             THEN npc'.alive
             ELSE npc' = npc]_vars

\* A tick has passed over an NPC dead for respawn_time while no round was in
\* progress, and it is still dead.
C24_Witness ==
    /\ spawned /\ ~npc.alive /\ ~round_in_progress
    /\ now - npc.death_time >= RespawnTime
    /\ now > npc.death_time

\* C25: the NPC is created in state 'patrol', and after any sequence of
\* update ticks, take_damage calls, deaths and respawns its state is one of
\* 'patrol', 'engage', 'retreat' and 'hide'.
C25_StateIsOneOfFour ==
    /\ npc.state = "patrol"
    /\ [](spawned => npc.state \in States)

\* The NPC has died, respawned, and left patrol again.
C25_Witness ==
    /\ spawned /\ npc.alive /\ npc.state \in {"engage", "retreat", "hide"}
    /\ \E k \in 1..Len(npc.experience) : npc.experience[k].action = "died"

\* C26: after any sequence of adapt_behavior and adapt_after_death applied
\* to an NPC created and scaled for its round, its accuracy is within
\* [0.4, 0.9], its aggressiveness within [0.1, 0.9], its patience within
\* [3, 20] seconds and its reaction_time within [0.3, 2.0] seconds.
C26_TunablesInRange ==
    /\ AccuracyFloor <= npc.accuracy /\ npc.accuracy <= AccuracyCap
    /\ 10 <= npc.aggressiveness /\ npc.aggressiveness <= 90
    /\ 3 <= npc.patience /\ npc.patience <= 20
    /\ 300 <= npc.reaction_time /\ npc.reaction_time <= 2000

\* Three deaths have brought an NPC spawned with a reaction time of 0.5 s
\* to the limits of 0.3 s, 3 s of patience and an aggressiveness of 0.1, and
\* adapt_behavior has then lowered its accuracy and set its aggressiveness
\* to 0.2.
C26_Witness ==
    /\ op = "adapt_behavior" /\ npc.reaction_time = 300 /\ npc.patience = 3
    /\ npc.aggressiveness = 20 /\ npc.accuracy = 48

\* C27: a take_damage call on a living NPC, the player present, that leaves
\* 0 < health < 30 leaves the NPC in state 'retreat' on a retreat path of 3
\* waypoints with current_waypoint 0, whatever its state was.  (The steps
\* of SpecTactics that leave the clock alone are the take_damage calls.)
C27_LowHealthRetreats ==
    [][(spawned /\ npc.alive /\ player.present /\ now' = now
        /\ 0 < npc'.health /\ npc'.health < LowHealth)
       => (/\ npc'.state = "retreat"
           /\ npc'.waypoints = Repeat("retreat", RetreatPathLen)
           /\ npc'.current_waypoint = 0)]_vars

\* An NPC that had gone into hiding has been hit down to 25 health and is
\* on a retreat path.
C27_Witness ==
    /\ spawned /\ npc.alive /\ npc.health = 25 /\ npc.state = "retreat"
    /\ npc.hiding_start_time # None /\ npc.hiding_start_time = now
    /\ Len(npc.waypoints) = RetreatPathLen /\ npc.current_waypoint = 0

\* C28: a hit of the player's weapon on a living NPC (the steps that take
\* exactly the weapon's damage off its health) leaves the NPC as
\* take_damage with that amount could leave it: in retreat when 0 < health
\* < 30 remains, dead when none remains.
C28_WeaponHitAsTakeDamage ==
    [][(spawned /\ npc.alive /\ now' = now /\ npc'.health = npc.health - WeaponDamage)
       => \E i \in DamageInputs(npc, WeaponDamage) :
              npc' = take_damage(npc, player, now, WeaponDamage, i)]_vars

\* C29: the tick on which a living NPC in retreat reaches its last
\* waypoint leaves it in state 'hide' with health min(health + 20,
\* max_health); no other tick of a living NPC changes its health, and no
\* call of take_damage, Weapon.fire or die raises it.
C29_BonusOnCompletedRetreat ==
    [][(spawned /\ npc.alive)
       => LET completes == /\ npc.state = "retreat"
                           /\ npc'.current_waypoint = npc.current_waypoint + 1
                           /\ npc'.current_waypoint >= Len(npc.waypoints)
          IN /\ (now' # now /\ completes)
                    => (/\ npc'.state = "hide"
                        /\ npc'.health = Min(npc.health + RetreatHealthBonus, npc.max_health))
             /\ (now' # now /\ ~completes) => npc'.health = npc.health
             /\ now' = now => npc'.health <= npc.health]_vars

\* An NPC hit down to 25 health has walked its retreat path to the end and
\* hides with 45 health.
C29_Witness ==
    /\ spawned /\ npc.alive /\ npc.state = "hide" /\ npc.health = 45
    /\ npc.waypoints = Repeat("retreat", RetreatPathLen)
    /\ npc.current_waypoint = RetreatPathLen

\* C30: after any sequence of update ticks, take_damage calls, deaths and
\* respawns, a living NPC in patrol has a non-empty waypoint list with
\* 0 <= current_waypoint < len(waypoints), current_waypoint is never
\* negative (retreat indexes only below len(waypoints)), and no tick has
\* raised IndexError.
C30_WaypointIndexValid ==
    (spawned /\ npc.alive)
        => /\ npc.exc # "IndexError"
           /\ npc.current_waypoint >= 0
           /\ npc.state = "patrol"
                  => (npc.waypoints # <<>> /\ npc.current_waypoint < Len(npc.waypoints))

\* An NPC that completed a retreat (and hid with the bonus, at the end of
\* its three retreat waypoints) is back in patrol on a patrol path.
C30_Witness ==
    /\ spawned /\ npc.alive /\ npc.state = "patrol" /\ npc.health = 45
    /\ npc.waypoints # <<>> /\ npc.waypoints[1] = "patrol"
    /\ npc.current_waypoint < Len(npc.waypoints)

\* C31: on a tick that appends a fire record to the experience log, the
\* record's hit flag is True exactly when the shot took health off the
\* player.
C31_RecordedHitIsDamage ==
    [][(spawned /\ now' # now /\ Len(npc'.experience) = Len(npc.experience) + 1
        /\ npc'.experience[Len(npc'.experience)].action = "fire")
       => (npc'.experience[Len(npc'.experience)].hit <=> player'.health < player.health)]_vars

\* C32: when adapt_behavior runs on a log with fire records, it raises the
\* aggressiveness if the player was moving in more than 0.7 of the fire
\* records, lowers it if in fewer than 0.3 of them, and leaves it alone
\* otherwise; 'died' records do not count.
C32_MovingFractionOfFireRecords ==
    [][(op' = "adapt" /\ SelectSeq(npc'.experience, IsFire) # <<>>)
       => LET fires == SelectSeq(npc'.experience, IsFire)
              moving == Len(SelectSeq(fires, IsMoving))
          IN npc'.aggressiveness =
                 IF moving * 10 > 7 * Len(fires) THEN Min(90, npc.aggressiveness + 5)
                 ELSE IF moving * 10 < 3 * Len(fires) THEN Max(20, npc.aggressiveness - 3)
                 ELSE npc.aggressiveness]_vars

\* C33: a record_experience call that leaves fewer than 5 records in the
\* log changes nothing of the NPC but the log, whatever its draw.
C33_NoAdaptationBelowFiveRecords ==
    [][(Len(npc'.experience) = Len(npc.experience) + 1
        /\ Len(npc'.experience) < MinExperience)
       => npc' = [npc EXCEPT !.experience = npc'.experience]]_vars

\* Four misses have been recorded and the accuracy is still the 0.5 of the
\* spawn.
C33_Witness ==
    /\ op = "record" /\ Len(npc.experience) = MinExperience - 1
    /\ \A k \in 1..Len(npc.experience) :
           IsFire(npc.experience[k]) /\ ~IsHit(npc.experience[k])
    /\ npc.accuracy = 50 /\ npc.max_health = 100

\* C34: the experience log never holds more than 100 records, and a
\* record_experience call on a log of 100 leaves 100 records: the old ones
\* without the oldest, in their order, and then the new one.
C34_LogKeepsLastHundred ==
    /\ [](Len(npc.experience) <= ExperienceMaxLen)
    /\ [][(op' = "append" /\ Len(npc.experience) = ExperienceMaxLen)
          => (/\ Len(npc'.experience) = ExperienceMaxLen
              /\ \A k \in 1..(ExperienceMaxLen - 1) :
                     npc'.experience[k] = npc.experience[k + 1]
              /\ npc'.experience[ExperienceMaxLen] \in LogRecords)]_vars

\* Two records have been appended to a log of 99: its first record is
\* gone, its second and third are now the first and second, and the log
\* holds 100 records, the last of them new.
C34_Witness ==
    /\ op = "append" /\ DOMAIN hist = {"appends"} /\ hist.appends = 2
    /\ Len(npc.experience) = ExperienceMaxLen
    /\ npc.experience[1] = FireRecord(FALSE, 12, FALSE)
    /\ npc.experience[2] = DiedRecord(12)
    /\ npc.experience[ExperienceMaxLen] = DiedRecord(12)

\* C35: a run of adapt_behavior raises nothing and leaves the tactical
\* state alone, and on a log without fire records it leaves accuracy,
\* aggressiveness and tactical_preference alone as well.
C35_AdaptationKeepsState ==
    [][(op' = "adapt")
       => (/\ npc'.state = npc.state /\ npc'.exc = "none"
           /\ SelectSeq(npc'.experience, IsFire) = <<>>
                  => (/\ npc'.accuracy = npc.accuracy
                      /\ npc'.aggressiveness = npc.aggressiveness
                      /\ npc'.tactical_preference = npc.tactical_preference))]_vars

\* adapt_behavior has run on a log of five deaths.
C35_Witness ==
    /\ op = "adapt" /\ Len(npc.experience) = MinExperience
    /\ \A k \in 1..Len(npc.experience) : npc.experience[k].action = "died"
    /\ npc.aggressiveness = 50 /\ npc.state = "patrol"

\* C36: a step on which the NPC fires (fire_at_player stamps last_fire_time)
\* is an update tick of a living NPC in state 'engage' whose target is
\* present, alive and perceived on that tick.
C36_FiresOnlyEngagedAndSeeing ==
    [][(spawned /\ npc'.last_fire_time # npc.last_fire_time)
       => (/\ now' # now /\ npc'.last_fire_time = now'
           /\ npc.alive /\ npc.state = "engage"
           /\ player.present /\ player.alive
           /\ hist'.blind_since = now')]_vars

\* An NPC in engage has fired on this tick at the player in its sight, and
\* the shot has killed the player.
C36_Witness ==
    /\ spawned /\ npc.alive /\ npc.state = "engage"
    /\ npc.last_fire_time = now /\ hist.blind_since = now
    /\ ~player.alive /\ player.death_time = now

\* C37: an apply_action call on an EnemyNPC that has died (health 0, state
\* 'dead') leaves its state 'dead', its position and its ammo as they
\* were, and does not damage the player.
C37_DeadEnemyIgnoresActions ==
    [][(/\ EnemyPresent /\ enemy.state = "dead" /\ enemy.health = 0 /\ now' = now
        /\ \E a \in ActionIndices, i \in ShotInputs :
               enemy' = EnemyNPC_apply_action(enemy, target, now, a, i))
       => (/\ enemy'.state = "dead"
           /\ enemy'.position = enemy.position
           /\ enemy'.ammo = enemy.ammo
           /\ target' = target)]_vars

\* C38: start_next_round runs (its pending call is taken) only while the
\* player exists, and current_round stays within 1..MAX_ROUNDS.
C38_NoRoundAfterEndGame ==
    /\ [](current_round \in 1..MAX_ROUNDS)
    /\ [][(Due(pending, "start_next_round", now) /\ pending'["start_next_round"] = None)
          => player.present]_vars

=============================================================================
